---- MODULE Spec2Model ----
(***************************************************************************)
(* Resilience layer of the event ingestion core:                           *)
(*   CircuitBreaker   servers/event_mcp/resilience/circuit_breaker.py      *)
(*   retry_with_backoff  servers/event_mcp/resilience/retry.py             *)
(*   FallbackChain    servers/event_mcp/resilience/fallback.py             *)
(* Each component has its own variables and its own specification          *)
(* (SpecCB, SpecRetry, SpecFallback); a specification leaves the other     *)
(* components' variables at their initial values.                          *)
(***************************************************************************)
EXTENDS Integers, Sequences, FiniteSets

(***************************************************************************)
(* Bounds of the model.                                                    *)
(***************************************************************************)
MaxThreshold == 2    \* failure_threshold ranges over 0..MaxThreshold
MaxTimeout == 2      \* recovery_timeout ranges over 0..MaxTimeout (seconds)
MaxTime == 3         \* the clock runs from 0 to MaxTime
MaxCalls == 4        \* wrapped operations started through one breaker
MaxInFlight == 2     \* calls awaiting their operation at the same time
MaxAttempts == 3     \* max_attempts ranges over 0..MaxAttempts
MaxFunctions == 3    \* a FallbackChain holds 0..MaxFunctions alternatives

VARIABLES
    \* ---- CircuitBreaker fields (circuit_breaker.py:50-56)
    failure_threshold,
    recovery_timeout,
    name,
    failure_count,
    state,
    last_failure_time,
    success_count_in_half_open,
    \* ---- environment of the breaker
    now,          \* datetime.now(), in whole seconds
    in_flight,    \* calls suspended at `await coro` (circuit_breaker.py:78)
    invoked,      \* how many wrapped operations have been started
    run,          \* failed calls completed since the last successful call,
                  \* reset() or construction (observer, not read by the code)
    cb_event,     \* what the last step of the breaker delivered to its caller
    \* ---- retry_with_backoff: parameters and the wrapped function
    max_attempts,
    retryable_exceptions,
    script,          \* what func does at its 1st, 2nd, ... invocation
    \* ---- retry_with_backoff.wrapper: locals and position
    r_pc,            \* "idle", "awaiting", "sleeping", "returned", "raised"
    attempt,
    last_exception,
    r_calls,         \* invocations of func so far
    r_sleeps,        \* asyncio.sleep calls so far
    r_outcome,       \* what the wrapper returned or raised
    \* ---- FallbackChain: the alternatives and execute's arguments
    functions,       \* what each alternative does when invoked
    f_args,
    \* ---- FallbackChain.execute: locals and position
    f_pc,            \* "idle", "awaiting", "returned", "raised"
    f_i,
    last_error,
    f_log,           \* the invocations made, in order
    f_outcome,       \* what execute returned or raised
    \* ---- dedup.py: the module global, and the last call made with what
    \* it was given and what it returned
    WEIGHTS,
    d_op,            \* "none", "deduplicate", "again", "similarity"
    d_events,        \* the list passed to deduplicate, as passed
    d_threshold,
    d_weights,       \* the weights argument; NoWeights when not given
    d_result,        \* what deduplicate returned
    sim_e1,
    sim_e2,
    similarity,      \* what calculate_similarity returned
    \* ---- choose_primary_event and the merge step of _merge_duplicates
    m_e1,            \* the earlier event
    m_e2,
    m_op,            \* "none", "choose", "merge"
    m_first,         \* choose_primary_event returned (e1, e2)
    m_kept,           \* the primary after merge_with
    \* ---- deduplicate run on equal inputs with two thresholds
    t_events,
    t_low,
    t_high,
    t_op,            \* "none", "compared"
    t_result_low,
    t_result_high,
    \* URL guard: one validate_url call, its arguments and its outcome
    u_url,
    u_require_https,
    u_allowed_domains,
    u_resolve_dns,
    u_dns,
    u_op,            \* "none", "validate_url"
    u_outcome,
    \* source fetch: its arguments, its position, the URLs validated and
    \* requested, and what it returned
    sf_source,
    sf_url,
    sf_api_key,
    sf_dns,
    sf_pc,            \* "called", "request", "returned"
    sf_pending,
    sf_checked,
    sf_requested,
    sf_result,
    \* guarded operation under breaker and retry: the operation and its URL,
    \* the position inside the wrapped function, the breaker's failure
    \* count and state when the operation started, and whether the guard
    \* has just raised an SSRF violation
    g_operation,
    g_url,
    g_pc,            \* "outside", "gate", "operation"
    g_before,
    g_violation,
    g_cancel,        \* where the task was cancelled: "none", "in_flight", "sleep"
    \* HealthMonitor
    status,          \* self.status: source -> status dict
    hm_history,
    hm_call,          \* the last call made: its method and its source argument
    \* backoff waits of the retry wrapper: its arguments, the position in
    \* the loop, the attempts made, the delays slept and the outcome
    b_max_attempts,
    b_base_delay,
    b_max_delay,
    b_exponential_base,
    b_pc,            \* "idle", "awaiting", "sleeping", "returned", "raised"
    b_attempt,
    b_calls,
    b_waits,
    b_outcome,
    \* fetch_events: its arguments and the API keys set, the position in
    \* _fetch_all_sources, the lists it builds, the adapter calls made, and
    \* the result
    fe_sources,
    fe_handles,
    fe_urls,
    fe_keys,
    fe_pc,           \* "idle", "serpapi", "instagram", "web", "returned"
    fe_k,
    all_events,
    all_stats,
    failed,
    fe_log,
    fe_result

cbVars == <<failure_threshold, recovery_timeout, name, failure_count, state,
            last_failure_time, success_count_in_half_open, now, in_flight,
            invoked, run, cb_event>>

retryVars == <<max_attempts, retryable_exceptions, script, r_pc, attempt,
               last_exception, r_calls, r_sleeps, r_outcome>>

fbVars == <<functions, f_args, f_pc, f_i, last_error, f_log, f_outcome>>

dedupVars == <<WEIGHTS, d_op, d_events, d_threshold, d_weights, d_result,
               sim_e1, sim_e2, similarity>>

mergeVars == <<m_e1, m_e2, m_op, m_first, m_kept>>

thrVars == <<t_events, t_low, t_high, t_op, t_result_low, t_result_high>>

urlVars == <<u_url, u_require_https, u_allowed_domains, u_resolve_dns, u_dns, u_op, u_outcome>>

fetchVars == <<sf_source, sf_url, sf_api_key, sf_dns, sf_pc, sf_pending, sf_checked, sf_requested, sf_result>>

gVars == <<g_operation, g_url, g_pc, g_before, g_violation, g_cancel>>

healthVars == <<status, hm_history, hm_call>>

backoffVars == <<b_max_attempts, b_base_delay, b_max_delay, b_exponential_base, b_pc, b_attempt, b_calls, b_waits, b_outcome>>

ingestVars == <<fe_sources, fe_handles, fe_urls, fe_keys, fe_pc, fe_k, all_events, all_stats, failed, fe_log, fe_result>>

vars == <<cbVars, retryVars, fbVars, dedupVars, mergeVars, thrVars, urlVars, fetchVars, gVars, healthVars, backoffVars, ingestVars>>

\* What a step of one component leaves alone
cbOthers == <<retryVars, fbVars, dedupVars, mergeVars, thrVars, urlVars, fetchVars, gVars, healthVars, backoffVars, ingestVars>>
retryOthers == <<cbVars, fbVars, dedupVars, mergeVars, thrVars, urlVars, fetchVars, gVars, healthVars, backoffVars, ingestVars>>
fbOthers == <<cbVars, retryVars, dedupVars, mergeVars, thrVars, urlVars, fetchVars, gVars, healthVars, backoffVars, ingestVars>>
dedupOthers == <<cbVars, retryVars, fbVars, mergeVars, thrVars, urlVars, fetchVars, gVars, healthVars, backoffVars, ingestVars>>
mergeOthers == <<cbVars, retryVars, fbVars, dedupVars, thrVars, urlVars, fetchVars, gVars, healthVars, backoffVars, ingestVars>>
thrOthers == <<cbVars, retryVars, fbVars, dedupVars, mergeVars, urlVars, fetchVars, gVars, healthVars, backoffVars, ingestVars>>
urlOthers == <<cbVars, retryVars, fbVars, dedupVars, mergeVars, thrVars, fetchVars, gVars, healthVars, backoffVars, ingestVars>>
fetchOthers == <<cbVars, retryVars, fbVars, dedupVars, mergeVars, thrVars, urlVars, gVars, healthVars, backoffVars, ingestVars>>
guardedOthers == <<fbVars, dedupVars, mergeVars, thrVars, urlVars, fetchVars, healthVars, backoffVars, ingestVars>>
healthOthers == <<cbVars, retryVars, fbVars, dedupVars, mergeVars, thrVars, urlVars, fetchVars, gVars, backoffVars, ingestVars>>
backoffOthers == <<cbVars, retryVars, fbVars, dedupVars, mergeVars, thrVars, urlVars, fetchVars, gVars, healthVars, ingestVars>>
ingestOthers == <<cbVars, retryVars, fbVars, dedupVars, mergeVars, thrVars, urlVars, fetchVars, gVars, healthVars, backoffVars>>

(***************************************************************************)
(* CircuitState (circuit_breaker.py:14-19)                                 *)
(***************************************************************************)
CLOSED == "closed"
OPEN == "open"
HALF_OPEN == "half_open"
CircuitState == {CLOSED, OPEN, HALF_OPEN}

\* last_failure_time: datetime | None
None == -1

CircuitNames == {"default", "serpapi"}

\* CircuitBreakerOpenError(circuit_name): message and attribute carry the name
CircuitBreakerOpenError(circuit_name) ==
    [type |-> "CircuitBreakerOpenError", circuit_name |-> circuit_name]

NoError == [type |-> "none", circuit_name |-> "none"]
OperationError == [type |-> "Exception", circuit_name |-> "none"]

\* op: what happened; error: what the caller received; from: the breaker's
\* state when the step began
CbEvent(op, error, from) == [op |-> op, error |-> error, from |-> from]

(***************************************************************************)
(* CircuitBreaker.__init__                                                 *)
(***************************************************************************)
CB_init ==
    /\ failure_threshold \in 0..MaxThreshold
    /\ recovery_timeout \in 0..MaxTimeout
    /\ name \in CircuitNames
    /\ failure_count = 0
    /\ state = CLOSED
    /\ last_failure_time = None
    /\ success_count_in_half_open = 0
    /\ now = 0
    /\ in_flight = 0
    /\ invoked = 0
    /\ run = 0
    /\ cb_event = CbEvent("init", NoError, CLOSED)

\* Variants of _should_attempt_reset with the comparison wrong
\* Variant of _should_attempt_reset that never waits
should_attempt_reset_at_once == TRUE

should_attempt_reset_inverted ==
    IF last_failure_time = None
    THEN TRUE
    ELSE (now - last_failure_time) <= recovery_timeout

should_attempt_reset_strict ==
    IF last_failure_time = None
    THEN TRUE
    ELSE (now - last_failure_time) > recovery_timeout

(***************************************************************************)
(* _should_attempt_reset: no recorded failure, or recovery_timeout elapsed *)
(***************************************************************************)
should_attempt_reset ==
    IF last_failure_time = None
    THEN TRUE
    ELSE (now - last_failure_time) >= recovery_timeout

\* Variant of _transition_to_half_open that keeps the old success count
transition_to_half_open_keeps_successes ==
    /\ state' = HALF_OPEN
    /\ UNCHANGED success_count_in_half_open

\* Variant of _transition_to_half_open that closes the circuit at once
transition_to_closed ==
    /\ state' = CLOSED
    /\ success_count_in_half_open' = 0

(***************************************************************************)
(* _transition_to_half_open                                                *)
(***************************************************************************)
transition_to_half_open ==
    /\ state' = HALF_OPEN
    /\ success_count_in_half_open' = 0

(***************************************************************************)
(* _close_circuit                                                          *)
(***************************************************************************)
close_circuit ==
    /\ failure_count' = 0
    /\ state' = CLOSED

\* Variant of _on_success that never clears failure_count while Closed
on_success_keeps_count ==
    IF state = HALF_OPEN
    THEN /\ success_count_in_half_open' = success_count_in_half_open + 1
         /\ IF success_count_in_half_open + 1 >= 2
            THEN close_circuit
            ELSE UNCHANGED <<failure_count, state>>
    ELSE UNCHANGED <<failure_count, state, success_count_in_half_open>>

(***************************************************************************)
(* _on_success                                                             *)
(***************************************************************************)
on_success ==
    IF state = HALF_OPEN
    THEN /\ success_count_in_half_open' = success_count_in_half_open + 1
         /\ IF success_count_in_half_open + 1 >= 2
            THEN close_circuit
            ELSE UNCHANGED <<failure_count, state>>
    ELSE /\ failure_count' = 0
         /\ UNCHANGED <<state, success_count_in_half_open>>

(***************************************************************************)
(* _open_circuit                                                           *)
(***************************************************************************)
open_circuit == state' = OPEN

\* Variant of _on_failure that records only the first failure's time
on_failure_keeps_timer ==
    /\ failure_count' = failure_count + 1
    /\ last_failure_time' =
           IF last_failure_time = None THEN now ELSE last_failure_time
    /\ IF state = HALF_OPEN
       THEN open_circuit
       ELSE IF failure_count + 1 >= failure_threshold
            THEN open_circuit
            ELSE UNCHANGED state

\* Variant of _on_failure that opens one failure late
on_failure_late ==
    /\ failure_count' = failure_count + 1
    /\ last_failure_time' = now
    /\ IF state = HALF_OPEN
       THEN open_circuit
       ELSE IF failure_count + 1 > failure_threshold
            THEN open_circuit
            ELSE UNCHANGED state

(***************************************************************************)
(* _on_failure                                                             *)
(***************************************************************************)
on_failure ==
    /\ failure_count' = failure_count + 1
    /\ last_failure_time' = now
    /\ IF state = HALF_OPEN
       THEN open_circuit
       ELSE IF failure_count + 1 >= failure_threshold
            THEN open_circuit
            ELSE UNCHANGED state

(***************************************************************************)
(* CircuitBreaker.call, up to the suspension at `await coro`:              *)
(* the gate of lines 71-75, then the operation is started.                 *)
(***************************************************************************)
call_rejected ==
    /\ UNCHANGED cbOthers
    /\ state = OPEN
    /\ ~should_attempt_reset
    /\ cb_event' = CbEvent("rejected", CircuitBreakerOpenError(name), state)
    /\ UNCHANGED <<failure_threshold, recovery_timeout, name, failure_count,
                   state, last_failure_time, success_count_in_half_open, now,
                   in_flight, invoked, run>>

call_admitted ==
    /\ UNCHANGED cbOthers
    /\ invoked < MaxCalls
    /\ in_flight < MaxInFlight
    /\ IF state = OPEN
       THEN /\ should_attempt_reset
            /\ transition_to_half_open
       ELSE UNCHANGED <<state, success_count_in_half_open>>
    /\ in_flight' = in_flight + 1
    /\ invoked' = invoked + 1
    /\ cb_event' = CbEvent("admitted", NoError, state)
    /\ UNCHANGED <<failure_threshold, recovery_timeout, name, failure_count,
                   last_failure_time, now, run>>

(***************************************************************************)
(* CircuitBreaker.call, after `await coro`: lines 78-83                    *)
(***************************************************************************)
call_returns ==
    /\ UNCHANGED cbOthers
    /\ in_flight > 0
    /\ on_success
    /\ in_flight' = in_flight - 1
    /\ run' = 0
    /\ cb_event' = CbEvent("success", NoError, state)
    /\ UNCHANGED <<failure_threshold, recovery_timeout, name,
                   last_failure_time, now, invoked>>

call_raises ==
    /\ UNCHANGED cbOthers
    /\ in_flight > 0
    /\ on_failure
    /\ in_flight' = in_flight - 1
    /\ run' = run + 1
    /\ cb_event' = CbEvent("failure", OperationError, state)
    /\ UNCHANGED <<failure_threshold, recovery_timeout, name,
                   success_count_in_half_open, now, invoked>>

\* Variant of reset that keeps the time of the last failure
CB_reset_keeps_timer ==
    /\ UNCHANGED cbOthers
    /\ failure_count' = 0
    /\ state' = CLOSED
    /\ success_count_in_half_open' = 0
    /\ run' = 0
    /\ cb_event' = CbEvent("reset", NoError, state)
    /\ UNCHANGED <<failure_threshold, recovery_timeout, name, now, in_flight,
                   invoked, last_failure_time>>

(***************************************************************************)
(* CircuitBreaker.reset                                                    *)
(***************************************************************************)
CB_reset ==
    /\ UNCHANGED cbOthers
    /\ failure_count' = 0
    /\ state' = CLOSED
    /\ last_failure_time' = None
    /\ success_count_in_half_open' = 0
    /\ run' = 0
    /\ cb_event' = CbEvent("reset", NoError, state)
    /\ UNCHANGED <<failure_threshold, recovery_timeout, name, now, in_flight,
                   invoked>>

(***************************************************************************)
(* The clock advances.                                                     *)
(***************************************************************************)
Tick ==
    /\ UNCHANGED cbOthers
    /\ now < MaxTime
    /\ now' = now + 1
    /\ cb_event' = CbEvent("tick", NoError, state)
    /\ UNCHANGED <<failure_threshold, recovery_timeout, name, failure_count,
                   state, last_failure_time, success_count_in_half_open,
                   in_flight, invoked, run>>

NextCB ==
    \/ call_rejected
    \/ call_admitted
    \/ call_returns
    \/ call_raises
    \/ CB_reset
    \/ Tick

(***************************************************************************)
(* Exceptions.  An exception object is identified by its class and by the  *)
(* invocation that raised it.  The classes and their bases are Python's.   *)
(***************************************************************************)
Base(cls) ==
    CASE cls = "ValueError" -> "Exception"
      [] cls = "TypeError" -> "Exception"
      [] cls = "ConnectionError" -> "OSError"
      [] cls = "OSError" -> "Exception"
      [] cls = "Exception" -> "BaseException"
      [] cls = "CancelledError" -> "BaseException"
      [] cls = "SSRFError" -> "Exception"
      [] cls = "CircuitBreakerOpenError" -> "Exception"
      [] OTHER -> "object"

\* issubclass(cls, of)
RECURSIVE IsSubclass(_, _)
IsSubclass(cls, of) ==
    IF cls = of THEN TRUE
    ELSE IF cls \in {"BaseException", "object"} THEN FALSE
    ELSE IsSubclass(Base(cls), of)

\* What one invocation of a wrapped function can do: return, or raise one of
\* these classes (CancelledError is how a cancelled await ends)
Raised == {"ValueError", "ConnectionError", "CancelledError"}
Outcomes == {"ok"} \cup Raised

Exc(cls, by) == [kind |-> "exception", cls |-> cls, by |-> by]
Result(by) == [kind |-> "result", cls |-> "ok", by |-> by]
Nothing == [kind |-> "none", cls |-> "none", by |-> 0]
\* `raise None`: "exceptions must derive from BaseException"
RaiseNone == Exc("TypeError", 0)

(***************************************************************************)
(* retry_with_backoff(max_attempts, ..., retryable_exceptions)(func)       *)
(***************************************************************************)
\* The values retryable_exceptions may take: tuples of Exception classes
AllowLists == SUBSET {"Exception", "ValueError", "OSError"}

Retry_idle ==
    /\ r_pc = "idle"
    /\ attempt = 0
    /\ last_exception = Nothing
    /\ r_calls = 0
    /\ r_sleeps = 0
    /\ r_outcome = Nothing

Retry_init ==
    /\ max_attempts \in 0..MaxAttempts
    /\ retryable_exceptions \in AllowLists
    /\ script \in [1..MaxAttempts -> Outcomes]
    /\ Retry_idle

\* Variant of the loop bound that runs one iteration too many
InRange_inclusive(a) == a <= max_attempts /\ a < MaxAttempts

\* for attempt in range(max_attempts)
InRange(a) == a < max_attempts

\* Variant of the except clause that catches every Exception
IsRetryable_catch_all(cls) == IsSubclass(cls, "Exception")

\* except retryable_exceptions as e
IsRetryable(cls) == \E c \in retryable_exceptions : IsSubclass(cls, c)

\* if attempt < max_attempts - 1
HasAttemptsLeft(a) == a < max_attempts - 1

\* Variant of the handler's assignment that keeps the first exception
Remember_first(e) == IF last_exception = Nothing THEN e ELSE last_exception

\* last_exception = e
Remember(e) == e

\* One iteration of the loop up to `await func(...)`, or the code after the
\* loop when range(max_attempts) is exhausted: raise last_exception
retry_iterate(a, last) ==
    IF InRange(a)
    THEN /\ r_pc' = "awaiting"
         /\ attempt' = a
         /\ r_calls' = r_calls + 1
         /\ r_outcome' = r_outcome
    ELSE /\ r_pc' = "raised"
         /\ attempt' = attempt
         /\ r_calls' = r_calls
         /\ r_outcome' = IF last = Nothing THEN RaiseNone ELSE last

\* the wrapper is called
retry_call ==
    /\ r_pc = "idle"
    /\ last_exception' = Nothing
    /\ retry_iterate(0, Nothing)
    /\ UNCHANGED <<max_attempts, retryable_exceptions, script, r_sleeps>>
    /\ UNCHANGED retryOthers

\* return await func(...)
retry_func_returns ==
    /\ r_pc = "awaiting"
    /\ script[r_calls] = "ok"
    /\ r_pc' = "returned"
    /\ r_outcome' = Result(r_calls)
    /\ UNCHANGED <<max_attempts, retryable_exceptions, script, attempt,
                   last_exception, r_calls, r_sleeps>>
    /\ UNCHANGED retryOthers

\* func raised an exception the except clause catches
retry_func_raises_retryable ==
    /\ r_pc = "awaiting"
    /\ script[r_calls] # "ok"
    /\ IsRetryable(script[r_calls])
    /\ last_exception' = Remember(Exc(script[r_calls], r_calls))
    /\ IF HasAttemptsLeft(attempt)
       THEN /\ r_sleeps' = r_sleeps + 1
            /\ r_pc' = "sleeping"
            /\ UNCHANGED <<attempt, r_calls, r_outcome>>
       ELSE /\ retry_iterate(attempt + 1, last_exception')
            /\ UNCHANGED r_sleeps
    /\ UNCHANGED <<max_attempts, retryable_exceptions, script>>
    /\ UNCHANGED retryOthers

\* func raised an exception the except clause does not catch
retry_func_raises_other ==
    /\ r_pc = "awaiting"
    /\ script[r_calls] # "ok"
    /\ ~IsRetryable(script[r_calls])
    /\ r_pc' = "raised"
    /\ r_outcome' = Exc(script[r_calls], r_calls)
    /\ UNCHANGED <<max_attempts, retryable_exceptions, script, attempt,
                   last_exception, r_calls, r_sleeps>>
    /\ UNCHANGED retryOthers

\* await asyncio.sleep(delay) returns; the loop goes on
retry_sleep_done ==
    /\ r_pc = "sleeping"
    /\ retry_iterate(attempt + 1, last_exception)
    /\ UNCHANGED <<max_attempts, retryable_exceptions, script,
                   last_exception, r_sleeps>>
    /\ UNCHANGED retryOthers

NextRetry ==
    \/ retry_call
    \/ retry_func_returns
    \/ retry_func_raises_retryable
    \/ retry_func_raises_other
    \/ retry_sleep_done

(***************************************************************************)
(* FallbackChain.execute                                                   *)
(***************************************************************************)
ArgValues == {"args1", "args2"}

Invocation(i, args) == [fn |-> i, args |-> args]

Fallback_idle ==
    /\ f_pc = "idle"
    /\ f_i = 0
    /\ last_error = Nothing
    /\ f_log = <<>>
    /\ f_outcome = Nothing

Fallback_init ==
    /\ \E n \in 0..MaxFunctions : functions \in [1..n -> Outcomes]
    /\ f_args \in ArgValues
    /\ Fallback_idle

\* Variant of the handler's assignment that keeps the first error
KeepError_first(e) == IF last_error = Nothing THEN e ELSE last_error

\* last_error = e
KeepError(e) == e

\* One iteration of `for i, func in enumerate(self.functions)` up to
\* `await func(...)`, or the code after the loop: raise last_error
execute_iterate(i, last) ==
    IF i <= Len(functions)
    THEN /\ f_pc' = "awaiting"
         /\ f_i' = i
         /\ f_log' = Append(f_log, Invocation(i, f_args))
         /\ f_outcome' = f_outcome
    ELSE /\ f_pc' = "raised"
         /\ f_i' = f_i
         /\ f_log' = f_log
         /\ f_outcome' = IF last = Nothing THEN RaiseNone ELSE last

\* Variant of the success path that goes on to the next alternative
execute_success_continues ==
    /\ execute_iterate(f_i + 1, Result(f_i))
    /\ UNCHANGED last_error

\* return result
execute_success ==
    /\ f_pc' = "returned"
    /\ f_outcome' = Result(f_i)
    /\ UNCHANGED <<f_i, last_error, f_log>>

\* execute is called
execute_call ==
    /\ f_pc = "idle"
    /\ last_error' = Nothing
    /\ execute_iterate(1, Nothing)
    /\ UNCHANGED <<functions, f_args>>
    /\ UNCHANGED fbOthers

\* the awaited alternative returned
execute_func_returns ==
    /\ f_pc = "awaiting"
    /\ functions[f_i] = "ok"
    /\ execute_success
    /\ UNCHANGED <<functions, f_args>>
    /\ UNCHANGED fbOthers

\* the awaited alternative raised an Exception: except Exception as e
execute_func_raises ==
    /\ f_pc = "awaiting"
    /\ functions[f_i] # "ok"
    /\ IsSubclass(functions[f_i], "Exception")
    /\ last_error' = KeepError(Exc(functions[f_i], f_i))
    /\ execute_iterate(f_i + 1, last_error')
    /\ UNCHANGED <<functions, f_args>>
    /\ UNCHANGED fbOthers

\* the awaited alternative raised something `except Exception` lets through
execute_func_raises_base ==
    /\ f_pc = "awaiting"
    /\ functions[f_i] # "ok"
    /\ ~IsSubclass(functions[f_i], "Exception")
    /\ f_pc' = "raised"
    /\ f_outcome' = Exc(functions[f_i], f_i)
    /\ UNCHANGED <<functions, f_args, f_i, last_error, f_log>>
    /\ UNCHANGED fbOthers

NextFallback ==
    \/ execute_call
    \/ execute_func_returns
    \/ execute_func_raises
    \/ execute_func_raises_base

(***************************************************************************)
(* Deduplication engine: servers/event_mcp/dedup.py and the Event model of *)
(* servers/event_mcp/models.py.                                            *)
(*                                                                         *)
(* A Python str is a sequence of one-character strings.  A similarity      *)
(* (a float in [0, 1]) is an integer number of 1/SCALE units, a weight or  *)
(* a threshold an integer number of hundredths, a datetime an integer      *)
(* number of minutes; with names of at most 5 characters after             *)
(* normalisation the arithmetic below is exact.                            *)
(***************************************************************************)
SCALE == 25200

LowerChars == <<"a", "b", "c", "d", "e", "f", "g", "h", "i", "j", "k", "l",
                "m", "n", "o", "p", "q", "r", "s", "t", "u", "v", "w", "x",
                "y", "z">>
UpperChars == <<"A", "B", "C", "D", "E", "F", "G", "H", "I", "J", "K", "L",
                "M", "N", "O", "P", "Q", "R", "S", "T", "U", "V", "W", "X",
                "Y", "Z">>

\* ord(c), for the characters the model uses
CharCode(c) ==
    IF \E i \in 1..26 : LowerChars[i] = c
    THEN 96 + (CHOOSE i \in 1..26 : LowerChars[i] = c)
    ELSE IF \E i \in 1..26 : UpperChars[i] = c
    THEN 64 + (CHOOSE i \in 1..26 : UpperChars[i] = c)
    ELSE CASE c = " " -> 32
           [] c = "!" -> 33
           [] c = "-" -> 45
           [] c = ":" -> 58
           [] c = "@" -> 64
           [] OTHER -> 63

\* str.lower()
ToLower == [c \in {UpperChars[i] : i \in 1..26} |->
              LowerChars[CHOOSE i \in 1..26 : UpperChars[i] = c]]

LowerChar(c) == IF c \in DOMAIN ToLower THEN ToLower[c] ELSE c

Lower(str) == [i \in 1..Len(str) |-> LowerChar(str[i])]

\* str.strip()
RECURSIVE LStrip(_)
LStrip(str) ==
    IF str # <<>> /\ Head(str) = " " THEN LStrip(Tail(str)) ELSE str

RECURSIVE RStrip(_)
RStrip(str) ==
    IF str # <<>> /\ str[Len(str)] = " "
    THEN RStrip(SubSeq(str, 1, Len(str) - 1))
    ELSE str

Strip(str) == RStrip(LStrip(str))

\* str.startswith(prefix), str.endswith(suffix)
StartsWith(str, prefix) ==
    /\ Len(prefix) <= Len(str)
    /\ SubSeq(str, 1, Len(prefix)) = prefix

EndsWith(str, suffix) ==
    /\ Len(suffix) <= Len(str)
    /\ SubSeq(str, Len(str) - Len(suffix) + 1, Len(str)) = suffix

\* re.sub(r'\s+', ' ', text)
RECURSIVE CollapseSpaces(_)
CollapseSpaces(str) ==
    IF Len(str) <= 1 THEN str
    ELSE IF str[1] = " " /\ str[2] = " " THEN CollapseSpaces(Tail(str))
    ELSE <<str[1]>> \o CollapseSpaces(Tail(str))

\* dedup.py:43, 49 and 68-72
TextPrefixes ==
    <<<<"l", "i", "v", "e", ":">>,
      <<"l", "i", "v", "e", " ", "-">>,
      <<"t", "o", "n", "i", "g", "h", "t", ":">>,
      <<"t", "h", "i", "s", " ", "w", "e", "e", "k", ":">>,
      <<"e", "v", "e", "n", "t", ":">>>>
TextSuffixes ==
    <<<<"-", " ", "l", "i", "v", "e">>,
      <<"l", "i", "v", "e", "!">>,
      <<"t", "o", "n", "i", "g", "h", "t", "!">>,
      <<"@", " ">>>>
VenueSuffixes ==
    <<<<" ", "b", "a", "r">>,
      <<" ", "p", "u", "b">>,
      <<" ", "c", "l", "u", "b">>,
      <<" ", "l", "o", "u", "n", "g", "e">>,
      <<" ", "t", "h", "e", "a", "t", "e", "r">>,
      <<" ", "t", "h", "e", "a", "t", "r", "e">>,
      <<" ", "h", "a", "l", "l">>,
      <<" ", "v", "e", "n", "u", "e">>,
      <<" ", "r", "o", "o", "m">>,
      <<" ", "s", "t", "a", "g", "e">>,
      <<" ", "a", "r", "e", "n", "a">>,
      <<" ", "c", "e", "n", "t", "e", "r">>,
      <<" ", "b", "r", "e", "w", "e", "r", "y">>,
      <<" ", "b", "r", "e", "w", "i", "n", "g">>,
      <<" ", "t", "a", "p", "r", "o", "o", "m">>,
      <<" ", "r", "e", "s", "t", "a", "u", "r", "a", "n", "t">>,
      <<" ", "g", "r", "i", "l", "l">>>>

\* for prefix in prefixes: if text.startswith(prefix): text = text[len(prefix):].strip()
RECURSIVE RemovePrefixes(_, _, _)
RemovePrefixes(str, prefixes, k) ==
    IF k > Len(prefixes) THEN str
    ELSE IF StartsWith(str, prefixes[k])
    THEN RemovePrefixes(Strip(SubSeq(str, Len(prefixes[k]) + 1, Len(str))),
                        prefixes, k + 1)
    ELSE RemovePrefixes(str, prefixes, k + 1)

\* for suffix in suffixes: if text.endswith(suffix): text = text[:-len(suffix)].strip()
RECURSIVE RemoveSuffixes(_, _, _)
RemoveSuffixes(str, suffixes, k) ==
    IF k > Len(suffixes) THEN str
    ELSE IF EndsWith(str, suffixes[k])
    THEN RemoveSuffixes(Strip(SubSeq(str, 1, Len(str) - Len(suffixes[k]))),
                        suffixes, k + 1)
    ELSE RemoveSuffixes(str, suffixes, k + 1)

\* normalize_text
normalize_text(text) ==
    IF text = <<>> THEN <<>>
    ELSE CollapseSpaces(
           RemoveSuffixes(
             RemovePrefixes(Strip(Lower(text)), TextPrefixes, 1),
             TextSuffixes, 1))

\* normalize_venue_name
normalize_venue_name(vname) ==
    IF vname = <<>> THEN <<>>
    ELSE LET stripped == RemoveSuffixes(Strip(Lower(vname)), VenueSuffixes, 1)
         IN  IF StartsWith(stripped, <<"t", "h", "e", " ">>)
             THEN SubSeq(stripped, 5, Len(stripped))
             ELSE stripped

(***************************************************************************)
(* rapidfuzz: fuzz.ratio is the normalised Indel similarity,               *)
(* 2 * LCS(s1, s2) / (len(s1) + len(s2)); fuzz.token_sort_ratio is the     *)
(* ratio of the two strings with their whitespace-separated words sorted.  *)
(***************************************************************************)
RECURSIVE LCS(_, _)
LCS(s1, s2) ==
    IF s1 = <<>> \/ s2 = <<>> THEN 0
    ELSE IF Head(s1) = Head(s2) THEN 1 + LCS(Tail(s1), Tail(s2))
    ELSE LET x == LCS(Tail(s1), s2)
             y == LCS(s1, Tail(s2))
         IN  IF x >= y THEN x ELSE y

\* fuzz.ratio(s1, s2) / 100
fuzz_ratio(s1, s2) ==
    IF Len(s1) + Len(s2) = 0 THEN SCALE
    ELSE (2 * LCS(s1, s2) * SCALE) \div (Len(s1) + Len(s2))

\* str.split(): the words of a string
RECURSIVE Words(_, _)
Words(str, word) ==
    IF str = <<>> THEN (IF word = <<>> THEN <<>> ELSE <<word>>)
    ELSE IF Head(str) = " "
    THEN (IF word = <<>> THEN <<>> ELSE <<word>>) \o Words(Tail(str), <<>>)
    ELSE Words(Tail(str), Append(word, Head(str)))

\* s1 < s2 as Python compares str
RECURSIVE StrLess(_, _)
StrLess(s1, s2) ==
    IF s2 = <<>> THEN FALSE
    ELSE IF s1 = <<>> THEN TRUE
    ELSE IF CharCode(Head(s1)) # CharCode(Head(s2))
    THEN CharCode(Head(s1)) < CharCode(Head(s2))
    ELSE StrLess(Tail(s1), Tail(s2))

\* sorted(words): insertion sort
RECURSIVE InsertWord(_, _)
InsertWord(w, sorted) ==
    IF sorted = <<>> THEN <<w>>
    ELSE IF StrLess(Head(sorted), w)
    THEN <<Head(sorted)>> \o InsertWord(w, Tail(sorted))
    ELSE <<w>> \o sorted

RECURSIVE SortWords(_)
SortWords(ws) ==
    IF ws = <<>> THEN <<>> ELSE InsertWord(Head(ws), SortWords(Tail(ws)))

\* " ".join(words)
RECURSIVE JoinWords(_)
JoinWords(ws) ==
    IF ws = <<>> THEN <<>>
    ELSE IF Len(ws) = 1 THEN ws[1]
    ELSE ws[1] \o <<" ">> \o JoinWords(Tail(ws))

\* fuzz.token_sort_ratio(s1, s2) / 100
token_sort_ratio(s1, s2) ==
    fuzz_ratio(JoinWords(SortWords(Words(s1, <<>>))),
               JoinWords(SortWords(Words(s2, <<>>))))

(***************************************************************************)
(* Event and Venue (models.py:16-71).  An Optional[str] that is None or "" *)
(* is falsy either way and is modelled as the empty value; tags and images *)
(* are lists built by list(set(...)), modelled as sets; category stands    *)
(* for the fields merge_with never reads (source_url, end_time, category,  *)
(* subcategories, price_min, price_max, ...).                              *)
(***************************************************************************)
Venue(vname, city, st, handle) ==
    [name |-> vname, city |-> city, state |-> st, instagram_handle |-> handle]

\* WEIGHTS (dedup.py:21-25), in hundredths
DefaultWeights == [title |-> 50, venue |-> 35, time |-> 15]

\* THRESHOLD (dedup.py:28), in hundredths
THRESHOLD == 75

\* seconds
TIME_WINDOW_SECONDS == 7200
SecondsPerDay == 86400

Abs(x) == IF x < 0 THEN -x ELSE x
\* Variant of Min that takes the larger value
Max(x, y) == IF x >= y THEN x ELSE y

Min(x, y) == IF x <= y THEN x ELSE y

\* datetime.date()
DateOf(t) == t \div SecondsPerDay

\* calculate_title_similarity
calculate_title_similarity(e1, e2) ==
    LET t1 == normalize_text(e1.title)
        t2 == normalize_text(e2.title)
    IN  IF t1 = <<>> \/ t2 = <<>> THEN 0 ELSE token_sort_ratio(t1, t2)

\* calculate_venue_similarity
calculate_venue_similarity(e1, e2) ==
    LET v1 == normalize_venue_name(e1.venue.name)
        v2 == normalize_venue_name(e2.venue.name)
        same_city ==
            /\ Lower(e1.venue.city) = Lower(e2.venue.city)
            /\ Lower(e1.venue.state) = Lower(e2.venue.state)
        name_similarity == fuzz_ratio(v1, v2)
    IN  IF v1 = <<>> \/ v2 = <<>> THEN 0
        ELSE IF /\ e1.venue.instagram_handle # <<>>
                /\ e2.venue.instagram_handle # <<>>
                /\ Lower(e1.venue.instagram_handle)
                     = Lower(e2.venue.instagram_handle)
        THEN SCALE
        ELSE IF same_city
        THEN Min(SCALE, (name_similarity * 11) \div 10)
        ELSE name_similarity

\* calculate_time_similarity
calculate_time_similarity(e1, e2) ==
    LET time_diff == Abs(e1.start_time - e2.start_time)
    IN  IF DateOf(e1.start_time) = DateOf(e2.start_time)
        THEN IF time_diff <= 1800 THEN SCALE
             ELSE IF time_diff <= 14400
             THEN SCALE - ((time_diff - 1800) * SCALE) \div 12600
             ELSE SCALE \div 2
        ELSE IF time_diff <= TIME_WINDOW_SECONDS
        THEN SCALE - (time_diff * SCALE) \div TIME_WINDOW_SECONDS
        ELSE 0

\* calculate_similarity, with W the value of the global WEIGHTS it reads;
\* total is in 1/(100 * SCALE) units, the components in 1/SCALE units
calculate_similarity(e1, e2, W) ==
    LET title_sim == calculate_title_similarity(e1, e2)
        venue_sim == calculate_venue_similarity(e1, e2)
        time_sim == calculate_time_similarity(e1, e2)
    IN  [total |-> W.title * title_sim + W.venue * venue_sim
                     + W.time * time_sim,
         title_sim |-> title_sim,
         venue_sim |-> venue_sim,
         time_sim |-> time_sim]

\* total_sim >= threshold (dedup.py:227), threshold in hundredths
AtLeast(total, threshold) == total >= threshold * SCALE

\* source_priority.get(source, 0)
source_priority(source) ==
    CASE source = "predicthq" -> 4
      [] source = "serpapi" -> 3
      [] source = "instagram" -> 2
      [] source = "web" -> 1
      [] OTHER -> 0

\* Variant of completeness_score that counts every field once
completeness_score_flat(e) ==
    (IF e.description # <<>> THEN 1 ELSE 0)
    + (IF e.price # "" THEN 1 ELSE 0)
    + (IF e.ticket_url # "" THEN 1 ELSE 0)
    + (IF e.image_url # "" THEN 1 ELSE 0)

\* choose_primary_event.completeness_score
completeness_score(e) ==
    (IF e.description # <<>> THEN 2 ELSE 0)
    + (IF e.price # "" THEN 1 ELSE 0)
    + (IF e.ticket_url # "" THEN 1 ELSE 0)
    + (IF e.image_url # "" THEN 1 ELSE 0)

\* Variant of choose_primary_event in the order its docstring gives:
\* completeness first, then source priority
first_is_primary_docstring(e1, e2) ==
    IF completeness_score(e1) > completeness_score(e2) THEN TRUE
    ELSE IF completeness_score(e2) > completeness_score(e1) THEN FALSE
    ELSE source_priority(e1.source) >= source_priority(e2.source)

\* choose_primary_event: TRUE when it returns (e1, e2), FALSE for (e2, e1)
first_is_primary(e1, e2) ==
    IF source_priority(e1.source) > source_priority(e2.source) THEN TRUE
    ELSE IF source_priority(e2.source) > source_priority(e1.source) THEN FALSE
    ELSE completeness_score(e1) >= completeness_score(e2)

\* Event.merge_with: the value of self after the call (self is changed in
\* place and returned)
merge_with(self, other) ==
    [self EXCEPT
       !.description =
           IF /\ other.description # <<>>
              /\ (self.description = <<>>
                    \/ Len(other.description) > Len(self.description))
           THEN other.description
           ELSE self.description,
       !.price =
           IF self.price = "" /\ other.price # ""
           THEN other.price ELSE self.price,
       !.ticket_url =
           IF self.ticket_url = "" /\ other.ticket_url # ""
           THEN other.ticket_url ELSE self.ticket_url,
       !.image_url =
           IF self.image_url = "" /\ other.image_url # ""
           THEN other.image_url ELSE self.image_url,
       !.images = self.images \cup other.images,
       !.tags = self.tags \cup other.tags]

\* Event.unique_key: the string that is hashed (models.py:78-89)
KeyPrefixes ==
    <<<<"l", "i", "v", "e", ":">>,
      <<"l", "i", "v", "e", " ", "-">>,
      <<"t", "o", "n", "i", "g", "h", "t", ":">>>>

unique_key(e) ==
    [title |-> RemovePrefixes(Strip(Lower(e.title)), KeyPrefixes, 1),
     date |-> DateOf(e.start_time),
     venue |-> Strip(Lower(e.venue.name))]

\* DuplicateMatch (models.py:116-125, dedup.py:247-255)
DuplicateMatch(primary, secondary, sim) ==
    [kept_event_id |-> unique_key(primary),
     merged_event_id |-> unique_key(secondary),
     similarity_score |-> sim.total,
     title_similarity |-> sim.title_sim,
     venue_similarity |-> sim.venue_sim,
     time_similarity |-> sim.time_sim,
     reason |-> [merged_title |-> secondary.title,
                 merged_source |-> secondary.source,
                 into_title |-> primary.title,
                 into_source |-> primary.source]]

(***************************************************************************)
(* deduplicate.  The caller's list holds Event objects and merge_with      *)
(* changes them in place, so the loop works on `heap`, the objects of the  *)
(* list by index, and the result lists refer to those objects.             *)
(***************************************************************************)
\* Variant of lines 293-296 that offers every later event
candidates_all(heap, i, merged) == (i + 1)..Len(heap)

\* lines 293-296: the indices of the unmerged events after events[i]
candidates(heap, i, merged) ==
    {j \in (i + 1)..Len(heap) : j \notin merged}

\* the calls of calculate_similarity that _find_duplicates makes for
\* events[i], as pairs of indices
comparisons(heap, i, merged) ==
    {<<i, j>> : j \in candidates(heap, i, merged)}

\* _find_duplicates over the candidates i+1..n not yet merged: for each
\* index j whose total similarity with events[i] reaches the threshold, the
\* similarities computed
find_duplicates(heap, i, merged, threshold, W) ==
    LET scored == [j \in candidates(heap, i, merged) |->
                     calculate_similarity(heap[i], heap[j], W)]
    IN  [j \in {c \in candidates(heap, i, merged) :
                   AtLeast(scored[c].total, threshold)} |->
           scored[j]]

\* the set's members in increasing order
RECURSIVE Ascending(_)
Ascending(S) ==
    IF S = {} THEN <<>>
    ELSE LET m == CHOOSE x \in S : \A y \in S : x <= y
         IN  <<m>> \o Ascending(S \ {m})

\* The body of the loop of _merge_duplicates once choose_primary_event has
\* named the event to keep and the one to drop (dedup.py:245-255)
merge_step(heap, keep, drop, sim, audit_trail) ==
    [heap |-> [heap EXCEPT ![keep] = merge_with(heap[keep], heap[drop])],
     primary |-> keep,
     audit_trail |->
         Append(audit_trail,
                DuplicateMatch(merge_with(heap[keep], heap[drop]),
                               heap[drop], sim))]

\* _merge_duplicates: m is [heap, primary, audit_trail]; dups the indices of
\* the duplicates in order; sims the similarities _find_duplicates computed
RECURSIVE merge_duplicates(_, _, _)
merge_duplicates(m, dups, sims) ==
    IF dups = <<>> THEN m
    ELSE merge_duplicates(
           IF first_is_primary(m.heap[m.primary], m.heap[Head(dups)])
           THEN merge_step(m.heap, m.primary, Head(dups), sims[Head(dups)],
                           m.audit_trail)
           ELSE merge_step(m.heap, Head(dups), m.primary, sims[Head(dups)],
                           m.audit_trail),
           Tail(dups), sims)

\* Variant of lines 305-306 that forgets to mark the duplicates
MarkMerged_forgets(merged, dups) == merged

\* for j, *_ in duplicates: merged_indices.add(j)
MarkMerged(merged, dups) == merged \cup dups

\* Variant of line 310 that puts the merged event in front
Emit_in_front(result_events, ref) == <<ref>> \o result_events

\* result_events.append(...)
Emit(result_events, ref) == Append(result_events, ref)

\* Lines 300-311 for events[i] with the duplicates found.  acc: heap,
\* merged_indices, result_events (references into heap), audit_trail; firsts
\* and groups observe, per emitted event, the loop index and the indices it
\* stands for; compared observes the pairs of indices compared so far.
keep_event(acc, i) ==
    [acc EXCEPT !.result_events = Emit(acc.result_events, i),
                !.firsts = Append(acc.firsts, i),
                !.groups = Append(acc.groups, {i})]

keep_merged(acc, i, dups, m) ==
    [heap |-> m.heap,
     merged_indices |-> MarkMerged(acc.merged_indices, dups),
     result_events |-> Emit(acc.result_events, m.primary),
     audit_trail |-> acc.audit_trail \o m.audit_trail,
     firsts |-> Append(acc.firsts, i),
     groups |-> Append(acc.groups, {i} \cup dups),
     compared |-> acc.compared]

process_event(acc, i, sims) ==
    IF DOMAIN sims = {} THEN keep_event(acc, i)
    ELSE keep_merged(acc, i, DOMAIN sims,
                     merge_duplicates(
                       [heap |-> acc.heap, primary |-> i,
                        audit_trail |-> <<>>],
                       Ascending(DOMAIN sims), sims))

\* The loop of lines 288-311 from index i on
RECURSIVE dedup_loop(_, _, _, _)
dedup_loop(acc, i, threshold, W) ==
    IF i > Len(acc.heap) THEN acc
    ELSE IF i \in acc.merged_indices
    THEN dedup_loop(acc, i + 1, threshold, W)
    ELSE dedup_loop(
           process_event([acc EXCEPT !.compared =
                              @ \cup comparisons(acc.heap, i,
                                                 acc.merged_indices)],
                         i,
                         find_duplicates(acc.heap, i, acc.merged_indices,
                                         threshold, W)),
           i + 1, threshold, W)

\* a weights argument that is None or {} is falsy: `if weights:`
NoWeights == [title |-> 0, venue |-> 0, time |-> 0]
IsTruthy(weights) == weights # NoWeights

\* The value of the global WEIGHTS after deduplicate(events, _, weights)
weights_after(events, weights, W) ==
    IF events = <<>> THEN W
    ELSE IF IsTruthy(weights) THEN weights
    ELSE W

\* DedupeResult(...) of lines 313-318; events_after is the caller's list
\* after the call, used the weights the call scored with
DedupeResult(events, acc, used) ==
    [status |-> "ok",
     events |-> [k \in 1..Len(acc.result_events) |->
                   acc.heap[acc.result_events[k]]],
     original_count |-> Len(events),
     duplicates_removed |-> Len(events) - Len(acc.result_events),
     audit_trail |-> acc.audit_trail,
     firsts |-> acc.firsts,
     groups |-> acc.groups,
     compared |-> acc.compared,
     refs |-> acc.result_events,
     events_after |-> acc.heap,
     used |-> used]

\* deduplicate(events, threshold, weights) with the global WEIGHTS = W.
\* status is "ok": no path of deduplicate raises on its configuration.
deduplicate(events, threshold, weights, W) ==
    IF events = <<>>
    THEN [status |-> "ok", events |-> <<>>, original_count |-> 0,
          duplicates_removed |-> 0, audit_trail |-> <<>>,
          firsts |-> <<>>, groups |-> <<>>, compared |-> {},
          refs |-> <<>>, events_after |-> events, used |-> W]
    ELSE DedupeResult(
           events,
           dedup_loop([heap |-> events, merged_indices |-> {},
                       result_events |-> <<>>, audit_trail |-> <<>>,
                       firsts |-> <<>>, groups |-> <<>>, compared |-> {}],
                      1, threshold, weights_after(events, weights, W)),
           weights_after(events, weights, W))

(***************************************************************************)
(* Inputs of the dedup operations                                          *)
(***************************************************************************)
Event(source, title, description, start_time, venue, category, price, ticket_url, image_url) ==
    [source |-> source, title |-> title, description |-> description,
     start_time |-> start_time, venue |-> venue, category |-> category,
     tags |-> {source},
     price |-> price, ticket_url |-> ticket_url, image_url |-> image_url,
     images |-> IF image_url = "" THEN {} ELSE {image_url}]

Title_abc == <<"a", "b", "c">>
Title_abd == <<"a", "b", "d">>
Title_ebd == <<"e", "b", "d">>
\* a title that is nothing but a prefix normalize_text removes
Title_Live == <<"L", "i", "v", "e", ":">>

TheAbBar ==
    Venue(<<"T", "h", "e", " ", "a", "b", " ", "B", "a", "r">>,
          <<"A", "u", "s">>, <<"T", "X">>, <<>>)
Unnamed == Venue(<<>>, <<"A", "u", "s">>, <<"T", "X">>, <<>>)

\* three listings at one venue and hour: EvA and EvB alike, EvB and EvC
\* alike, EvA and EvC not
EvA == Event("web", Title_abc, <<"d", "e">>, 0, TheAbBar, "music", "$5", "", "")
EvB == Event("predicthq", Title_abd, <<>>, 0, TheAbBar, "", "", "t.example", "")
EvC == Event("web", Title_ebd, <<"d">>, 0, TheAbBar, "", "", "", "i.example")

DedupEvents == {EvA, EvB, EvC}

\* longest list passed to deduplicate
MaxEvents == 3

\* the lists of at most n different members of S
RECURSIVE ListsUpTo(_, _)
ListsUpTo(S, n) ==
    IF n = 0 THEN {<<>>}
    ELSE LET shorter == ListsUpTo(S, n - 1)
         IN  shorter \cup
               {Append(l, e) : <<l, e>> \in
                  {q \in shorter \X S : \A k \in 1..Len(q[1]) : q[1][k] # q[2]}}

EventLists == ListsUpTo(DedupEvents, MaxEvents)

\* thresholds a caller passes, in hundredths: the default and 1.5
Thresholds == {THRESHOLD, 150}

\* weights a caller passes: none, or a map whose values sum to 0.85
Weights85 == [title |-> 50, venue |-> 35, time |-> 0]
WeightArgs == {NoWeights, Weights85}

NoEvent == Event("", <<>>, <<>>, 0, Unnamed, "", "", "", "")
NoSimilarity == [total |-> -1, title_sim |-> -1, venue_sim |-> -1, time_sim |-> -1]
NoResult ==
    [status |-> "none", events |-> <<>>, original_count |-> 0,
     duplicates_removed |-> 0, audit_trail |-> <<>>,
     firsts |-> <<>>, groups |-> <<>>, compared |-> {}, refs |-> <<>>,
     events_after |-> <<>>, used |-> NoWeights]

Dedup_parked ==
    /\ WEIGHTS = DefaultWeights
    /\ d_op = "none"
    /\ d_events = <<>>
    /\ d_threshold = THRESHOLD
    /\ d_weights = NoWeights
    /\ d_result = NoResult
    /\ sim_e1 = NoEvent
    /\ sim_e2 = NoEvent
    /\ similarity = NoSimilarity

\* the module as imported
Dedup_init == Dedup_parked

\* deduplicate(events, threshold, weights)
deduplicate_call ==
    \E events \in EventLists, threshold \in Thresholds, weights \in WeightArgs :
        /\ d_op' = "deduplicate"
        /\ d_events' = events
        /\ d_threshold' = threshold
        /\ d_weights' = weights
        /\ d_result' = deduplicate(events, threshold, weights, WEIGHTS)
        /\ WEIGHTS' = weights_after(events, weights, WEIGHTS)
        /\ sim_e1' = NoEvent
        /\ sim_e2' = NoEvent
        /\ similarity' = NoSimilarity
        /\ UNCHANGED dedupOthers

\* deduplicate(result.events, threshold, weights): the events the last call
\* returned, with the arguments of that call
deduplicate_again ==
    /\ d_op \in {"deduplicate", "again"}
    /\ d_op' = "again"
    /\ d_events' = d_result.events
    /\ d_result' = deduplicate(d_result.events, d_threshold, d_weights, WEIGHTS)
    /\ WEIGHTS' = weights_after(d_result.events, d_weights, WEIGHTS)
    /\ UNCHANGED <<d_threshold, d_weights, sim_e1, sim_e2, similarity>>
    /\ UNCHANGED dedupOthers

\* calculate_similarity(e1, e2)
calculate_similarity_call ==
    \E e1 \in DedupEvents, e2 \in DedupEvents :
        /\ d_op' = "similarity"
        /\ sim_e1' = e1
        /\ sim_e2' = e2
        /\ similarity' = calculate_similarity(e1, e2, WEIGHTS)
        /\ d_events' = <<>>
        /\ d_threshold' = THRESHOLD
        /\ d_weights' = NoWeights
        /\ d_result' = NoResult
        /\ UNCHANGED WEIGHTS
        /\ UNCHANGED dedupOthers

NextDedup ==
    \/ deduplicate_call
    \/ deduplicate_again
    \/ calculate_similarity_call

(***************************************************************************)
(* calculate_similarity as a function of its two events and of the value   *)
(* the global WEIGHTS holds when it is called                              *)
(***************************************************************************)
SimTitles == {Title_abc, Title_Live}
Handle_ab == <<"@", "a", "b">>
Handle_AB == <<"@", "A", "B">>
\* the venue under its handle, another venue in another city that carries
\* the same handle in capitals, and a venue known by its handle only
TheAbBar_handle == [TheAbBar EXCEPT !.instagram_handle = Handle_ab]
CdHall ==
    Venue(<<"c", "d", " ", "H", "a", "l", "l">>, <<"D", "a", "l">>,
          <<"T", "X">>, Handle_AB)
Unnamed_handle == [Unnamed EXCEPT !.instagram_handle = Handle_AB]

SimVenues == {TheAbBar, Unnamed, TheAbBar_handle, CdHall, Unnamed_handle}
\* start times in seconds: 00:00, 00:30, 00:31, 03:00, 04:00, 04:01, 23:30
\* and 00:30 of the next day
SimTimes == {0, 1800, 1860, 10800, 14400, 14460, 84600, 88200}

SimEvents ==
    {Event("web", t, <<>>, st, v, "", "", "", "") :
        t \in SimTitles, v \in SimVenues, st \in SimTimes}

\* the values WEIGHTS holds: the default, or what an earlier deduplicate
\* call stored (dedup.py:279-281)
WeightsInForce == {DefaultWeights} \cup (WeightArgs \ {NoWeights})

Sim_init ==
    /\ WEIGHTS \in WeightsInForce
    /\ sim_e1 \in SimEvents
    /\ sim_e2 \in SimEvents
    /\ similarity = NoSimilarity
    /\ d_op = "none"
    /\ d_events = <<>>
    /\ d_threshold = THRESHOLD
    /\ d_weights = NoWeights
    /\ d_result = NoResult

\* calculate_similarity(sim_e1, sim_e2)
similarity_apply ==
    /\ d_op = "none"
    /\ d_op' = "similarity"
    /\ similarity' = calculate_similarity(sim_e1, sim_e2, WEIGHTS)
    /\ UNCHANGED <<WEIGHTS, sim_e1, sim_e2, d_events, d_threshold, d_weights,
                   d_result>>
    /\ UNCHANGED dedupOthers

NextSim == similarity_apply

(***************************************************************************)
(* choose_primary_event(e1, e2) and the merge step of _merge_duplicates    *)
(* (dedup.py:244-245) as functions of the two events; e1 is the record     *)
(* that came earlier in the input                                          *)
(***************************************************************************)
Sources == {"predicthq", "web", "blog"}
Descriptions == {<<>>, <<"d">>, <<"d", "e">>}

MergeEvents ==
    {Event(src, Title_abc, d, 0, TheAbBar, c, p, t, i) :
        src \in Sources, d \in Descriptions, c \in {"", "music"},
        p \in {"", "$5"}, t \in {"", "t.example"}, i \in {"", "i.example"}}

Merge_parked ==
    /\ m_e1 = NoEvent
    /\ m_e2 = NoEvent
    /\ m_op = "none"
    /\ m_first = TRUE
    /\ m_kept = NoEvent

Merge_init ==
    /\ m_e1 \in MergeEvents
    /\ m_e2 \in MergeEvents
    /\ m_op = "none"
    /\ m_first = TRUE
    /\ m_kept = NoEvent

\* primary, secondary = choose_primary_event(e1, e2)
choose_primary_event_call ==
    /\ m_op = "none"
    /\ m_op' = "choose"
    /\ m_first' = first_is_primary(m_e1, m_e2)
    /\ UNCHANGED <<m_e1, m_e2, m_kept>>
    /\ UNCHANGED mergeOthers

\* primary, secondary = choose_primary_event(primary, dup)
\* primary = primary.merge_with(secondary)
merge_call ==
    /\ m_op = "none"
    /\ m_op' = "merge"
    /\ m_first' = first_is_primary(m_e1, m_e2)
    /\ m_kept' = IF first_is_primary(m_e1, m_e2)
                 THEN merge_with(m_e1, m_e2)
                 ELSE merge_with(m_e2, m_e1)
    /\ UNCHANGED <<m_e1, m_e2>>
    /\ UNCHANGED mergeOthers

NextMerge ==
    \/ choose_primary_event_call
    \/ merge_call

(***************************************************************************)
(* deduplicate as a function of its list and threshold, run twice on equal *)
(* lists (each run gets its own objects) with the default weights          *)
(***************************************************************************)
Title_bd == <<"b", "d">>
Title_abcde == <<"a", "b", "c", "d", "e">>
Title_ade == <<"a", "d", "e">>

\* four listings at one venue and hour: EvQ is like EvR at 0.75 but not at
\* 0.85, EvR is like EvS and EvT at 0.85, no other two are alike at 0.75
EvQ == Event("web", Title_bd, <<>>, 0, TheAbBar, "", "", "", "")
EvR == Event("web", Title_abcde, <<>>, 0, TheAbBar, "", "", "", "")
EvS == Event("web", Title_abc, <<>>, 0, TheAbBar, "", "", "", "")
EvT == Event("web", Title_ade, <<>>, 0, TheAbBar, "", "", "", "")

ComparedEvents == {EvQ, EvR, EvS, EvT}

\* longest list compared
MaxCompared == 4

ComparedLists == ListsUpTo(ComparedEvents, MaxCompared)

\* thresholds in hundredths
ComparedThresholds == {50, THRESHOLD, 85, 100}

Threshold_parked ==
    /\ t_events = <<>>
    /\ t_low = THRESHOLD
    /\ t_high = THRESHOLD
    /\ t_op = "none"
    /\ t_result_low = NoResult
    /\ t_result_high = NoResult

Threshold_init ==
    /\ t_events \in ComparedLists
    /\ t_low \in ComparedThresholds
    /\ t_high \in ComparedThresholds
    /\ t_low <= t_high
    /\ t_op = "none"
    /\ t_result_low = NoResult
    /\ t_result_high = NoResult

\* deduplicate(events, t_low) and deduplicate(events, t_high)
compare_thresholds ==
    /\ t_op = "none"
    /\ t_op' = "compared"
    /\ t_result_low' = deduplicate(t_events, t_low, NoWeights, WEIGHTS)
    /\ t_result_high' = deduplicate(t_events, t_high, NoWeights, WEIGHTS)
    /\ UNCHANGED <<t_events, t_low, t_high>>
    /\ UNCHANGED thrOthers

NextThreshold == compare_thresholds

(***************************************************************************)
(* URL guard: sources/url_validator.py.  A URL is a Python str, modelled   *)
(* as a tuple of one-character strings; an IP address is its version and   *)
(* its groups (four 8-bit groups, or eight 16-bit groups).  The resolver   *)
(* is an input: a function from host names to the answer of getaddrinfo.   *)
(***************************************************************************)

\* str.find(c): the first index of c in str, 0 when absent
Find(str, c) ==
    IF \E i \in 1..Len(str) : str[i] = c
    THEN CHOOSE i \in 1..Len(str) :
             str[i] = c /\ \A j \in 1..(i - 1) : str[j] # c
    ELSE 0

\* str.rfind(c): the last index of c in str, 0 when absent
RFind(str, c) ==
    IF \E i \in 1..Len(str) : str[i] = c
    THEN CHOOSE i \in 1..Len(str) :
             str[i] = c /\ \A j \in (i + 1)..Len(str) : str[j] # c
    ELSE 0

\* str.partition(c)[0] and str.partition(c)[2]
Before(str, c) ==
    IF Find(str, c) = 0 THEN str ELSE SubSeq(str, 1, Find(str, c) - 1)

After(str, c) ==
    IF Find(str, c) = 0 THEN <<>> ELSE SubSeq(str, Find(str, c) + 1, Len(str))

\* str.split(c)
RECURSIVE Split(_, _)
Split(str, c) ==
    IF Find(str, c) = 0
    THEN <<str>>
    ELSE <<Before(str, c)>> \o Split(After(str, c), c)

Digits == <<"0", "1", "2", "3", "4", "5", "6", "7", "8", "9">>

HexDigits == Digits \o <<"a", "b", "c", "d", "e", "f">>

DigitChars == {Digits[i] : i \in 1..10}

HexChars == {HexDigits[i] : i \in 1..16} \cup {UpperChars[i] : i \in 1..6}

Letters == {LowerChars[i] : i \in 1..26} \cup {UpperChars[i] : i \in 1..26}

\* urllib.parse.scheme_chars
SchemeChars == Letters \cup DigitChars \cup {"+", "-", "."}

\* int(str, base) of a non-empty string of digits of that base
RECURSIVE ParseInt(_, _)
ParseInt(str, base) ==
    IF str = <<>>
    THEN 0
    ELSE ParseInt(SubSeq(str, 1, Len(str) - 1), base) * base
         + (CHOOSE d \in 0..15 : HexDigits[d + 1] = LowerChar(str[Len(str)]))

\* urlparse(url).scheme: the text before the first ":" when it starts with a
\* letter and holds scheme characters only, lower-cased; "" otherwise
SchemeEnd(url) ==
    IF /\ Find(url, ":") > 1
       /\ url[1] \in Letters
       /\ \A j \in 1..(Find(url, ":") - 1) : url[j] \in SchemeChars
    THEN Find(url, ":")
    ELSE 0

\* urlparse(url).netloc: after "//", up to the first "/", "?" or "#"
Netloc(url) ==
    IF StartsWith(SubSeq(url, SchemeEnd(url) + 1, Len(url)), <<"/", "/">>)
    THEN Before(Before(Before(SubSeq(url, SchemeEnd(url) + 3, Len(url)),
                              "/"), "?"), "#")
    ELSE <<>>

\* urlparse(url).hostname: the netloc after the last "@", the text between
\* "[" and "]" when bracketed and the text before ":" otherwise, lower-cased
Hostinfo(netloc) == SubSeq(netloc, RFind(netloc, "@") + 1, Len(netloc))

Hostname(netloc) ==
    IF Find(Hostinfo(netloc), "[") > 0
    THEN Lower(Before(After(Hostinfo(netloc), "["), "]"))
    ELSE Lower(Before(Hostinfo(netloc), ":"))

\* urlparse raises ValueError for a netloc with one bracket but not the other
urlparse_raises(url) ==
    (Find(Netloc(url), "[") > 0) # (Find(Netloc(url), "]") > 0)

urlparse(url) ==
    [scheme   |-> Lower(SubSeq(url, 1, SchemeEnd(url) - 1)),
     netloc   |-> Netloc(url),
     hostname |-> Hostname(Netloc(url))]

\* ipaddress: an address is its version and its groups; NoAddress is the None
\* that _parse_ip_address returns for a ValueError
Address(version, groups) == [version |-> version, groups |-> groups]

NoAddress == Address(0, <<>>)

\* IPv4Address(str): four decimal groups of 1 to 3 digits, no leading zero,
\* each at most 255
IsOctet(part) ==
    /\ Len(part) \in 1..3
    /\ \A i \in 1..Len(part) : part[i] \in DigitChars
    /\ (Len(part) > 1 => part[1] # "0")
    /\ ParseInt(part, 10) <= 255

IPv4Address(str) ==
    IF Len(Split(str, ".")) = 4 /\ \A i \in 1..4 : IsOctet(Split(str, ".")[i])
    THEN Address(4, [i \in 1..4 |-> ParseInt(Split(str, ".")[i], 10)])
    ELSE NoAddress

\* IPv6Address(str): the parts between colons; an empty part is -1, a part
\* that is not 1 to 4 hex digits is -2; a dotted last part is an IPv4 address
\* that fills two groups
HexGroup(part) ==
    IF part = <<>> THEN -1
    ELSE IF Len(part) <= 4 /\ \A i \in 1..Len(part) : part[i] \in HexChars
         THEN ParseInt(part, 16)
         ELSE -2

DottedTail(v4) ==
    IF v4 = NoAddress
    THEN <<-2>>
    ELSE <<v4.groups[1] * 256 + v4.groups[2], v4.groups[3] * 256 + v4.groups[4]>>

Items(parts) ==
    IF Find(parts[Len(parts)], ".") > 0
    THEN [i \in 1..(Len(parts) - 1) |-> HexGroup(parts[i])]
         \o DottedTail(IPv4Address(parts[Len(parts)]))
    ELSE [i \in 1..Len(parts) |-> HexGroup(parts[i])]

Zeros(n) == [i \in 1..n |-> 0]

\* the groups of an address written with "::" at item k
Expand(items, k) ==
    LET hi == IF k = 2 /\ items[1] = -1 THEN <<>> ELSE SubSeq(items, 1, k - 1)
        lo == IF k = Len(items) - 1 /\ items[Len(items)] = -1
              THEN <<>>
              ELSE SubSeq(items, k + 1, Len(items))
    IN  IF /\ Len(hi) + Len(lo) <= 7
           /\ \A i \in 1..Len(hi) : hi[i] >= 0
           /\ \A i \in 1..Len(lo) : lo[i] >= 0
        THEN Address(6, hi \o Zeros(8 - Len(hi) - Len(lo)) \o lo)
        ELSE NoAddress

IPv6Groups(items) ==
    LET skips == {k \in 2..(Len(items) - 1) : items[k] = -1}
    IN  IF Len(items) < 3 \/ Len(items) > 9 \/ Cardinality(skips) > 1
        THEN NoAddress
        ELSE IF skips = {}
             THEN IF Len(items) = 8 /\ \A i \in 1..8 : items[i] >= 0
                  THEN Address(6, items)
                  ELSE NoAddress
             ELSE Expand(items, CHOOSE k \in skips : TRUE)

IPv6Address(str) == IPv6Groups(Items(Split(str, ":")))

\* _parse_ip_address: ipaddress.ip_address tries IPv4 and then IPv6
_parse_ip_address(str) ==
    IF IPv4Address(str) # NoAddress THEN IPv4Address(str) ELSE IPv6Address(str)

\* ipaddress.ip_network(text): the network address and the prefix length
Network(text, prefixlen) ==
    [address |-> _parse_ip_address(text), prefixlen |-> prefixlen]

BLOCKED_IP_RANGES ==
    {Network(<<"1", "0", ".", "0", ".", "0", ".", "0">>, 8),
     Network(<<"1", "7", "2", ".", "1", "6", ".", "0", ".", "0">>, 12),
     Network(<<"1", "9", "2", ".", "1", "6", "8", ".", "0", ".", "0">>, 16),
     Network(<<"1", "2", "7", ".", "0", ".", "0", ".", "0">>, 8),
     Network(<<"1", "6", "9", ".", "2", "5", "4", ".", "0", ".", "0">>, 16),
     Network(<<"0", ".", "0", ".", "0", ".", "0">>, 8),
     Network(<<"2", "2", "4", ".", "0", ".", "0", ".", "0">>, 4),
     Network(<<"2", "4", "0", ".", "0", ".", "0", ".", "0">>, 4),
     Network(<<"1", "0", "0", ".", "6", "4", ".", "0", ".", "0">>, 10),
     Network(<<"1", "9", "2", ".", "0", ".", "0", ".", "0">>, 24),
     Network(<<"1", "9", "2", ".", "0", ".", "2", ".", "0">>, 24),
     Network(<<"1", "9", "8", ".", "5", "1", ".", "1", "0", "0", ".", "0">>, 24),
     Network(<<"2", "0", "3", ".", "0", ".", "1", "1", "3", ".", "0">>, 24),
     Network(<<"f", "c", "0", "0", ":", ":">>, 7),
     Network(<<"f", "e", "8", "0", ":", ":">>, 10),
     Network(<<":", ":", "1">>, 128)}

BLOCKED_HOSTNAMES ==
    {<<"l", "o", "c", "a", "l", "h", "o", "s", "t">>,
     <<"l", "o", "c", "a", "l", "h", "o", "s", "t", ".", "l", "o", "c", "a", "l", "d", "o", "m", "a", "i", "n">>,
     <<"1", "2", "7", ".", "0", ".", "0", ".", "1">>,
     <<":", ":", "1">>,
     <<"0", ".", "0", ".", "0", ".", "0">>}

RECURSIVE Pow2(_)
Pow2(n) == IF n = 0 THEN 1 ELSE 2 * Pow2(n - 1)

\* ip_addr in network: same version and the same leading prefixlen bits
\* (an address of the other version is in no network)
InNetwork(ip, network) ==
    LET width == IF ip.version = 4 THEN 8 ELSE 16
    IN  /\ ip.version = network.address.version
        /\ \A k \in 1..Len(ip.groups) :
             \/ network.prefixlen <= (k - 1) * width
             \/ /\ network.prefixlen >= k * width
                /\ ip.groups[k] = network.address.groups[k]
             \/ /\ network.prefixlen < k * width
                /\ ip.groups[k] \div Pow2(k * width - network.prefixlen)
                   = network.address.groups[k]
                     \div Pow2(k * width - network.prefixlen)

_is_blocked_ip(ip_addr) ==
    \E network \in BLOCKED_IP_RANGES : InNetwork(ip_addr, network)

\* a whitelist match that takes any suffix, with or without the dot
_domain_matches_suffix(hostname, allowed_domains) ==
    \E domain \in allowed_domains :
        EndsWith(Lower(hostname), Lower(domain))

\* _domain_matches_whitelist
_domain_matches_whitelist(hostname, allowed_domains) ==
    \E domain \in allowed_domains :
        \/ Lower(hostname) = Lower(domain)
        \/ EndsWith(Lower(hostname), <<".">> \o Lower(domain))

\* allowed_domains: None, or a set of domains
NoDomains == [given |-> FALSE, domains |-> {}]

Domains(domains) == [given |-> TRUE, domains |-> domains]

\* what getaddrinfo answers for a host: socket.gaierror, or addresses
GaiError == [gaierror |-> TRUE, addresses |-> {}]

Resolved(addresses) == [gaierror |-> FALSE, addresses |-> addresses]

\* the outcome of validate_url: the returned URL, or the SSRFError raised
Returns(url) == [raised |-> "", value |-> url]

Raises(error, check) == [raised |-> error, value |-> check]

\* validate_url, lines 130-152: the literal address, or the resolved ones
check_addresses(url, hostname, resolve_dns, dns) ==
    IF _parse_ip_address(hostname) # NoAddress
    THEN IF _is_blocked_ip(_parse_ip_address(hostname))
         THEN Raises("SSRFError", "blocked_ip")
         ELSE Returns(url)
    ELSE IF /\ resolve_dns
            /\ ~dns[hostname].gaierror
            /\ \E ip_str \in dns[hostname].addresses :
                   /\ _parse_ip_address(ip_str) # NoAddress
                   /\ _is_blocked_ip(_parse_ip_address(ip_str))
         THEN Raises("SSRFError", "resolves_to_blocked_ip")
         ELSE Returns(url)

\* validate_url, lines 104-128, on the stripped URL
check_hostname(url, hostname, allowed_domains, resolve_dns, dns) ==
    IF hostname = <<>>
    THEN Raises("SSRFError", "no_hostname")
    ELSE IF Lower(hostname) \in BLOCKED_HOSTNAMES
    THEN Raises("SSRFError", "blocked_hostname")
    ELSE IF \/ StartsWith(Lower(hostname), <<"l", "o", "c", "a", "l", "h", "o", "s", "t">>)
            \/ EndsWith(Lower(hostname), <<".", "l", "o", "c", "a", "l", "h", "o", "s", "t">>)
    THEN Raises("SSRFError", "localhost")
    ELSE IF /\ allowed_domains.given
            /\ ~_domain_matches_whitelist(hostname, allowed_domains.domains)
    THEN Raises("SSRFError", "not_allowed")
    ELSE check_addresses(url, hostname, resolve_dns, dns)

\* validate_url without its scheme checks
check_any_scheme(url, require_https, allowed_domains, resolve_dns, dns) ==
    IF urlparse_raises(url)
    THEN Raises("SSRFError", "invalid_url")
    ELSE check_hostname(url, urlparse(url).hostname, allowed_domains,
                        resolve_dns, dns)

\* validate_url, lines 82-102, on the stripped URL
check_scheme(url, require_https, allowed_domains, resolve_dns, dns) ==
    IF urlparse_raises(url)
    THEN Raises("SSRFError", "invalid_url")
    ELSE IF require_https /\ urlparse(url).scheme # <<"h", "t", "t", "p", "s">>
    THEN Raises("SSRFError", "not_https")
    ELSE IF urlparse(url).scheme \notin {<<"h", "t", "t", "p">>, <<"h", "t", "t", "p", "s">>}
    THEN Raises("SSRFError", "not_http")
    ELSE check_hostname(url, urlparse(url).hostname, allowed_domains,
                        resolve_dns, dns)

validate_url(url, require_https, allowed_domains, resolve_dns, dns) ==
    IF url = <<>>
    THEN Raises("SSRFError", "empty")
    ELSE check_scheme(Strip(url), require_https, allowed_domains,
                      resolve_dns, dns)

\* the URLs validated: the scheme, host and address forms of the unit tests
\* and of the checks above
Urls ==
    {<<"h", "t", "t", "p", "s", ":", "/", "/", "e", "x", "a", "m", "p", "l", "e", ".", "c", "o", "m">>,
     <<"h", "t", "t", "p", ":", "/", "/", "e", "x", "a", "m", "p", "l", "e", ".", "c", "o", "m">>,
     <<"h", "t", "t", "p", "s", ":", "/", "/", "1", "9", "2", ".", "1", "6", "8", ".", "1", ".", "1", "/", "x">>,
     <<"h", "t", "t", "p", "s", ":", "/", "/", "l", "o", "c", "a", "l", "h", "o", "s", "t", "/", "x">>,
     <<"h", "t", "t", "p", "s", ":", "/", "/", "n", "o", "t", "e", "x", "a", "m", "p", "l", "e", ".", "c", "o", "m">>,
     <<"h", "t", "t", "p", "s", ":", "/", "/", "a", "p", "i", ".", "e", "x", "a", "m", "p", "l", "e", ".", "c", "o", "m">>,
     <<" ", "h", "t", "t", "p", "s", ":", "/", "/", "e", "x", "a", "m", "p", "l", "e", ".", "c", "o", "m", "/", "a", " ">>,
     <<"f", "t", "p", ":", "/", "/", "e", "x", "a", "m", "p", "l", "e", ".", "c", "o", "m", "/", "f">>,
     <<"H", "T", "T", "P", "S", ":", "/", "/", "A", "P", "I", ".", "E", "x", "a", "m", "p", "l", "e", ".", "C", "O", "M", ":", "8", "4", "4", "3", "/", "a">>,
     <<"h", "t", "t", "p", "s", ":", "/", "/", "u", "s", "e", "r", "@", "1", "0", ".", "0", ".", "0", ".", "1", ":", "8", "0", "8", "0", "/">>,
     <<"h", "t", "t", "p", "s", ":", "/", "/", "8", ".", "8", ".", "8", ".", "8", "/">>,
     <<"h", "t", "t", "p", "s", ":", "/", "/", "[", ":", ":", "1", "]", "/">>,
     <<"h", "t", "t", "p", "s", ":", "/", "/", "[", "f", "c", "0", "0", ":", ":", "1", "]", "/">>,
     <<"h", "t", "t", "p", "s", ":", "/", "/", "[", "2", "0", "0", "1", ":", "4", "8", "6", "0", ":", ":", "8", "8", "8", "8", "]", "/">>,
     <<"h", "t", "t", "p", "s", ":", "/", "/", "[", ":", ":", "f", "f", "f", "f", ":", "7", "f", "0", "0", ":", "1", "]", "/">>,
     <<"h", "t", "t", "p", "s", ":", "/", "/", "[", ":", ":", "f", "f", "f", "f", ":", "1", "0", ".", "0", ".", "0", ".", "1", "]", "/">>,
     <<"h", "t", "t", "p", "s", ":", "/", "/", "i", "n", ".", "e", "x", "a", "m", "p", "l", "e", ".", "c", "o", "m", "/">>,
     <<"h", "t", "t", "p", "s", ":", "/", "/", "a", "p", "p", ".", "l", "o", "c", "a", "l", "h", "o", "s", "t", "/">>,
     <<"h", "t", "t", "p", "s", ":", "/", "/", "L", "o", "c", "a", "l", "h", "o", "s", "t", ".", "e", "x", "a", "m", "p", "l", "e", ".", "c", "o", "m", "/">>,
     <<"h", "t", "t", "p", "s", ":", "/", "/", "1", "7", "2", ".", "3", "1", ".", "2", "5", "5", ".", "2", "5", "5", "/">>,
     <<"h", "t", "t", "p", "s", ":", "/", "/", "1", "7", "2", ".", "3", "2", ".", "0", ".", "1", "/">>,
     <<"h", "t", "t", "p", "s", ":", "/", "/", "1", "2", "7", ".", "1", "/">>,
     <<"h", "t", "t", "p", "s", ":", "/", "/", "1", "0", "0", ".", "6", "4", ".", "0", ".", "1", "/">>,
     <<"h", "t", "t", "p", "s", ":", "/", "/", "1", "6", "9", ".", "2", "5", "4", ".", "1", "6", "9", ".", "2", "5", "4", "/", "l">>,
     <<"f", "i", "l", "e", ":", "/", "/", "/", "e", "t", "c", "/", "p", "a", "s", "s", "w", "d">>,
     <<"e", "x", "a", "m", "p", "l", "e", ".", "c", "o", "m", "/", "a">>,
     <<"h", "t", "t", "p", "s", ":", "/", "/">>,
     <<>>,
     <<" ", " ">>,
     <<"h", "t", "t", "p", "s", ":", "/", "/", "[", ":", ":", "1", "/">>}

Hostnames == {urlparse(Strip(url)).hostname : url \in Urls}

AllowedDomains ==
    {NoDomains,
     Domains({}),
     Domains({<<"E", "x", "a", "m", "p", "l", "e", ".", "c", "o", "m">>}),
     Domains({<<"l", "o", "c", "a", "l", "h", "o", "s", "t">>, <<"1", "9", "2", ".", "1", "6", "8", ".", "1", ".", "1">>, <<"i", "n", ".", "e", "x", "a", "m", "p", "l", "e", ".", "c", "o", "m">>}),
     Domains({<<"0", ".", "0", ".", "1">>})}

PublicAddress == <<"9", "3", ".", "1", "8", "4", ".", "2", "1", "6", ".", "3", "4">>

\* three answers of the resolver: every name has a public address; one name
\* has a public and a private address and one the loopback address; no name
\* resolves
Resolvers ==
    {[h \in Hostnames |-> Resolved({PublicAddress})],
     [h \in Hostnames |->
         IF h = <<"i", "n", ".", "e", "x", "a", "m", "p", "l", "e", ".", "c", "o", "m">>
         THEN Resolved({PublicAddress, <<"1", "0", ".", "0", ".", "0", ".", "5">>})
         ELSE IF h = <<"1", "2", "7", ".", "1">>
         THEN Resolved({<<"1", "2", "7", ".", "0", ".", "0", ".", "1">>})
         ELSE IF h = <<"a", "p", "i", ".", "e", "x", "a", "m", "p", "l", "e", ".", "c", "o", "m">>
         THEN Resolved({<<"f", "e", "8", "0", ":", ":", "1">>})
         ELSE Resolved({PublicAddress})],
     [h \in Hostnames |-> GaiError]}

NoOutcome == Raises("", "")

Url_parked ==
    /\ u_url = <<>>
    /\ u_require_https = TRUE
    /\ u_allowed_domains = NoDomains
    /\ u_resolve_dns = TRUE
    /\ u_dns = <<>>
    /\ u_op = "none"
    /\ u_outcome = NoOutcome

Url_init ==
    /\ u_url \in Urls
    /\ u_require_https \in BOOLEAN
    /\ u_allowed_domains \in AllowedDomains
    /\ u_resolve_dns \in BOOLEAN
    /\ u_dns \in Resolvers
    /\ u_op = "none"
    /\ u_outcome = NoOutcome

validate_url_call ==
    /\ u_op = "none"
    /\ u_op' = "validate_url"
    /\ u_outcome' = validate_url(u_url, u_require_https, u_allowed_domains,
                                 u_resolve_dns, u_dns)
    /\ UNCHANGED <<u_url, u_require_https, u_allowed_domains, u_resolve_dns,
                   u_dns>>
    /\ UNCHANGED urlOthers

NextUrl == validate_url_call

(***************************************************************************)
(* Source fetches: scrape_event_page (sources/web_scraper.py) and          *)
(* fetch_firecrawl_events (sources/firecrawl.py).  The server's answers    *)
(* are inputs; sf_requested lists the URLs requested over the network (for  *)
(* Firecrawl, the URLs it is asked to scrape), sf_checked the URLs that     *)
(* validate_url_for_scraping returned.                                     *)
(***************************************************************************)
MaxRedirects == 2    \* redirects followed by one client.get

validate_url_for_scraping(url, dns) ==
    validate_url(url, TRUE, NoDomains, TRUE, dns)

FetchStats(source, count, outcome) ==
    [source |-> source, count |-> count, status |-> outcome]

\* the tuple (events, FetchStats) returned; events is the number of events
FetchResult(source, count, outcome) ==
    [events |-> count, stats |-> FetchStats(source, count, outcome)]

NoFetchResult == FetchResult("", 0, "")

FetchSources == {"web", "firecrawl"}

FetchUrls ==
    {<<"h", "t", "t", "p", "s", ":", "/", "/", "e", "x", "a", "m", "p", "l", "e", ".", "c", "o", "m">>,
     <<"h", "t", "t", "p", ":", "/", "/", "e", "x", "a", "m", "p", "l", "e", ".", "c", "o", "m">>,
     <<"h", "t", "t", "p", "s", ":", "/", "/", "1", "9", "2", ".", "1", "6", "8", ".", "1", ".", "1", "/", "x">>,
     <<"h", "t", "t", "p", "s", ":", "/", "/", "l", "o", "c", "a", "l", "h", "o", "s", "t", "/", "x">>,
     <<" ", "h", "t", "t", "p", "s", ":", "/", "/", "e", "x", "a", "m", "p", "l", "e", ".", "c", "o", "m", "/", "a", " ">>,
     <<"h", "t", "t", "p", "s", ":", "/", "/", "i", "n", ".", "e", "x", "a", "m", "p", "l", "e", ".", "c", "o", "m", "/">>}

\* where a server may redirect the client
RedirectTargets ==
    {<<"h", "t", "t", "p", "s", ":", "/", "/", "e", "x", "a", "m", "p", "l", "e", ".", "c", "o", "m">>,
     <<"h", "t", "t", "p", "s", ":", "/", "/", "1", "6", "9", ".", "2", "5", "4", ".", "1", "6", "9", ".", "2", "5", "4", "/", "l">>,
     <<"h", "t", "t", "p", ":", "/", "/", "e", "x", "a", "m", "p", "l", "e", ".", "c", "o", "m">>}

Fetch_parked ==
    /\ sf_source = "web"
    /\ sf_url = <<>>
    /\ sf_api_key = FALSE
    /\ sf_dns = <<>>
    /\ sf_pc = "returned"
    /\ sf_pending = <<>>
    /\ sf_checked = {}
    /\ sf_requested = <<>>
    /\ sf_result = NoFetchResult

Fetch_init ==
    /\ sf_source \in FetchSources
    /\ sf_url \in FetchUrls
    /\ sf_api_key \in BOOLEAN
    /\ sf_dns \in Resolvers
    /\ sf_pc = "called"
    /\ sf_pending = <<>>
    /\ sf_checked = {}
    /\ sf_requested = <<>>
    /\ sf_result = NoFetchResult

fetch_returns(count, outcome) ==
    /\ sf_pc' = "returned"
    /\ sf_result' = FetchResult(sf_source, count, outcome)

\* fetch_firecrawl_events without FIRECRAWL_API_KEY: lines 42-49
missing_api_key ==
    /\ sf_pc = "called"
    /\ sf_source = "firecrawl"
    /\ ~sf_api_key
    /\ fetch_returns(0, "error")
    /\ UNCHANGED <<sf_source, sf_url, sf_api_key, sf_dns, sf_pending, sf_checked,
                   sf_requested>>
    /\ UNCHANGED fetchOthers

\* validate_url_for_scraping raises: web_scraper.py 73-81, firecrawl.py 54-62
validation_fails ==
    /\ sf_pc = "called"
    /\ sf_source = "firecrawl" => sf_api_key
    /\ validate_url_for_scraping(sf_url, sf_dns).raised = "SSRFError"
    /\ fetch_returns(0, "error")
    /\ UNCHANGED <<sf_source, sf_url, sf_api_key, sf_dns, sf_pending, sf_checked,
                   sf_requested>>
    /\ UNCHANGED fetchOthers

\* url = validate_url_for_scraping(url)
validation_passes ==
    /\ sf_pc = "called"
    /\ sf_source = "firecrawl" => sf_api_key
    /\ validate_url_for_scraping(sf_url, sf_dns).raised = ""
    /\ sf_pending' = validate_url_for_scraping(sf_url, sf_dns).value
    /\ sf_checked' = sf_checked \cup {validate_url_for_scraping(sf_url, sf_dns).value}
    /\ sf_pc' = "request"
    /\ UNCHANGED <<sf_source, sf_url, sf_api_key, sf_dns, sf_requested, sf_result>>
    /\ UNCHANGED fetchOthers

\* client.get(url, follow_redirects=True), web_scraper.py 84-93: the request
\* goes out; the server answers with a page, an error status, or a redirect,
\* which the client follows with a request for the Location it was given
client_get ==
    /\ sf_pc = "request"
    /\ sf_source = "web"
    /\ sf_requested' = Append(sf_requested, sf_pending)
    /\ \/ \E count \in 0..1 :
             /\ fetch_returns(count, "success")
             /\ UNCHANGED sf_pending
       \/ /\ fetch_returns(0, "error")
          /\ UNCHANGED sf_pending
       \/ /\ Len(sf_requested) < MaxRedirects
          /\ \E location \in RedirectTargets : sf_pending' = location
          /\ UNCHANGED <<sf_pc, sf_result>>
    /\ UNCHANGED <<sf_source, sf_url, sf_api_key, sf_dns, sf_checked>>
    /\ UNCHANGED fetchOthers

\* client.post(FIRECRAWL_API_URL/scrape, json={"url": url}), firecrawl.py
\* 66-131: Firecrawl is asked to fetch the URL and answers with content, with
\* success false, or with an error status
client_post ==
    /\ sf_pc = "request"
    /\ sf_source = "firecrawl"
    /\ sf_requested' = Append(sf_requested, sf_pending)
    /\ \/ \E count \in 0..1 : fetch_returns(count, "success")
       \/ fetch_returns(0, "error")
    /\ UNCHANGED <<sf_source, sf_url, sf_api_key, sf_dns, sf_pending, sf_checked>>
    /\ UNCHANGED fetchOthers

NextFetch ==
    \/ missing_api_key
    \/ validation_fails
    \/ validation_passes
    \/ client_get
    \/ client_post

(***************************************************************************)
(* A guarded operation under the resilience layer: the function wrapped by *)
(* retry_with_backoff awaits breaker.call(operation(url)), and the         *)
(* operation passes its URL to the URL guard.  The operation is either     *)
(* validate_url_for_scraping itself, which lets SSRFError out, or          *)
(* scrape_event_page, which catches it and returns an error FetchStats.    *)
(* The breaker and the retry wrapper are the ones modelled above; here     *)
(* the wrapped function is the breaker call instead of a script.           *)
(***************************************************************************)
GuardedOperations == {"validate_url_for_scraping", "scrape_event_page"}

GuardedUrls == {<<"h", "t", "t", "p", "s", ":", "/", "/", "e", "x", "a", "m", "p", "l", "e", ".", "c", "o", "m">>, <<"h", "t", "t", "p", "s", ":", "/", "/", "l", "o", "c", "a", "l", "h", "o", "s", "t", "/", "x">>}

\* retryable_exceptions: the default, a tuple of transport errors, and a
\* tuple naming the guard's own error
GuardedAllowLists == {{"Exception"}, {"OSError", "ValueError"}, {"SSRFError"}}

GuardedResolver == [h \in Hostnames |-> Resolved({PublicAddress})]

Snapshot(count, circuit_state) ==
    [failure_count |-> count, state |-> circuit_state]

Guarded_parked ==
    /\ g_operation = "scrape_event_page"
    /\ g_url = <<>>
    /\ g_pc = "outside"
    /\ g_before = Snapshot(0, CLOSED)
    /\ g_violation = FALSE
    /\ g_cancel = "none"

Guarded_init ==
    /\ g_operation \in GuardedOperations
    /\ g_url \in GuardedUrls
    /\ g_pc = "outside"
    /\ g_before = Snapshot(0, CLOSED)
    /\ g_violation = FALSE
    /\ g_cancel = "none"

\* the URL guard rejects the operation's URL
GuardRejects ==
    validate_url_for_scraping(g_url, GuardedResolver).raised = "SSRFError"

\* retry.py 43-72: the except clause and what follows it, for an exception
\* of class cls raised by the wrapped function
retry_handle(cls) ==
    IF IsRetryable(cls)
    THEN /\ last_exception' = Remember(Exc(cls, r_calls))
         /\ IF HasAttemptsLeft(attempt)
            THEN /\ r_sleeps' = r_sleeps + 1
                 /\ r_pc' = "sleeping"
                 /\ UNCHANGED <<attempt, r_calls, r_outcome>>
            ELSE /\ retry_iterate(attempt + 1, last_exception')
                 /\ UNCHANGED r_sleeps
    ELSE /\ r_pc' = "raised"
         /\ r_outcome' = Exc(cls, r_calls)
         /\ UNCHANGED <<attempt, last_exception, r_calls, r_sleeps>>

\* where the next step is: at the breaker's gate when the wrapper awaits its
\* function, outside otherwise
AtGate == g_pc' = IF r_pc' = "awaiting" THEN "gate" ELSE "outside"

\* the wrapper is called with an operation and a URL
guarded_call ==
    /\ r_pc \in {"idle", "returned", "raised"}
    /\ r_calls < MaxCalls
    /\ g_operation' \in GuardedOperations
    /\ g_url' \in GuardedUrls
    /\ last_exception' = Nothing
    /\ retry_iterate(0, Nothing)
    /\ AtGate
    /\ g_violation' = FALSE
    /\ g_cancel' = "none"
    /\ UNCHANGED <<max_attempts, retryable_exceptions, script, r_sleeps>>
    /\ UNCHANGED g_before
    /\ UNCHANGED cbVars
    /\ UNCHANGED guardedOthers

\* breaker.call, lines 71-75: the circuit is open and stays open
guarded_rejected ==
    /\ r_pc = "awaiting"
    /\ g_pc = "gate"
    /\ state = OPEN
    /\ ~should_attempt_reset
    /\ cb_event' = CbEvent("rejected", CircuitBreakerOpenError(name), state)
    /\ retry_handle("CircuitBreakerOpenError")
    /\ AtGate
    /\ g_violation' = FALSE
    /\ UNCHANGED <<failure_threshold, recovery_timeout, name, failure_count,
                   state, last_failure_time, success_count_in_half_open, now,
                   in_flight, invoked, run>>
    /\ UNCHANGED <<max_attempts, retryable_exceptions, script>>
    /\ UNCHANGED <<g_operation, g_url, g_before, g_cancel>>
    /\ UNCHANGED guardedOthers

\* breaker.call, lines 71-78: the gate lets the operation start
guarded_admitted ==
    /\ r_pc = "awaiting"
    /\ g_pc = "gate"
    /\ IF state = OPEN
       THEN /\ should_attempt_reset
            /\ transition_to_half_open
       ELSE UNCHANGED <<state, success_count_in_half_open>>
    /\ in_flight' = in_flight + 1
    /\ invoked' = invoked + 1
    /\ cb_event' = CbEvent("admitted", NoError, state)
    /\ g_pc' = "operation"
    /\ g_before' = Snapshot(failure_count, state')
    /\ g_violation' = FALSE
    /\ UNCHANGED <<failure_threshold, recovery_timeout, name, failure_count,
                   last_failure_time, now, run>>
    /\ UNCHANGED retryVars
    /\ UNCHANGED <<g_operation, g_url, g_cancel>>
    /\ UNCHANGED guardedOthers

\* the guard raises SSRFError and the operation lets it out: breaker.call,
\* lines 81-83, then the wrapper's except clause
guarded_raises ==
    /\ g_pc = "operation"
    /\ g_operation = "validate_url_for_scraping"
    /\ GuardRejects
    /\ on_failure
    /\ in_flight' = in_flight - 1
    /\ run' = run + 1
    /\ cb_event' = CbEvent("failure", OperationError, state)
    /\ retry_handle("SSRFError")
    /\ AtGate
    /\ g_violation' = TRUE
    /\ UNCHANGED <<failure_threshold, recovery_timeout, name,
                   success_count_in_half_open, now, invoked>>
    /\ UNCHANGED <<max_attempts, retryable_exceptions, script>>
    /\ UNCHANGED <<g_operation, g_url, g_before, g_cancel>>
    /\ UNCHANGED guardedOthers

\* the operation returns, with the validated URL or, for scrape_event_page
\* whose URL the guard rejected, with ([], FetchStats(status="error")):
\* breaker.call, lines 78-80, then the wrapper returns
guarded_returns ==
    /\ g_pc = "operation"
    /\ g_operation = "validate_url_for_scraping" => ~GuardRejects
    /\ on_success
    /\ in_flight' = in_flight - 1
    /\ run' = 0
    /\ cb_event' = CbEvent("success", NoError, state)
    /\ r_pc' = "returned"
    /\ r_outcome' = Result(r_calls)
    /\ g_pc' = "outside"
    /\ g_violation' = GuardRejects
    /\ UNCHANGED <<failure_threshold, recovery_timeout, name,
                   last_failure_time, now, invoked>>
    /\ UNCHANGED <<max_attempts, retryable_exceptions, script, attempt,
                   last_exception, r_calls, r_sleeps>>
    /\ UNCHANGED <<g_operation, g_url, g_before, g_cancel>>
    /\ UNCHANGED guardedOthers

\* await asyncio.sleep(delay) returns; the loop goes on
guarded_sleep_done ==
    /\ r_pc = "sleeping"
    /\ retry_iterate(attempt + 1, last_exception)
    /\ AtGate
    /\ UNCHANGED <<max_attempts, retryable_exceptions, script,
                   last_exception, r_sleeps>>
    /\ UNCHANGED <<g_operation, g_url, g_before, g_violation, g_cancel>>
    /\ UNCHANGED cbVars
    /\ UNCHANGED guardedOthers

NextGuarded ==
    \/ guarded_call
    \/ guarded_rejected
    \/ guarded_admitted
    \/ guarded_raises
    \/ guarded_returns
    \/ guarded_sleep_done

(***************************************************************************)
(* The same composition with the clock and with cancellation of the task   *)
(* that runs the wrapper.  asyncio raises CancelledError, a BaseException, *)
(* at the await the task is suspended on: `await coro` inside breaker.call *)
(* or `await asyncio.sleep(delay)` inside the wrapper's except clause.     *)
(***************************************************************************)
\* variant of the breaker's except clause that catches BaseException
breaker_catches_all(cls) == TRUE

\* circuit_breaker.py 81: `except Exception`
breaker_catches(cls) == IsSubclass(cls, "Exception")

\* the task is cancelled while the operation is in flight: CancelledError
\* passes through breaker.call (lines 77-83) and reaches the wrapper's
\* try (retry.py 40-43)
cancel_in_flight ==
    /\ g_pc = "operation"
    /\ IF breaker_catches("CancelledError")
       THEN /\ on_failure
            /\ run' = run + 1
            /\ cb_event' = CbEvent("failure", OperationError, state)
       ELSE /\ cb_event' = CbEvent("cancelled", NoError, state)
            /\ UNCHANGED <<failure_count, state, last_failure_time, run>>
    /\ in_flight' = in_flight - 1
    /\ retry_handle("CancelledError")
    /\ AtGate
    /\ g_cancel' = "in_flight"
    /\ UNCHANGED <<failure_threshold, recovery_timeout, name,
                   success_count_in_half_open, now, invoked>>
    /\ UNCHANGED <<max_attempts, retryable_exceptions, script>>
    /\ UNCHANGED <<g_operation, g_url, g_before, g_violation>>
    /\ UNCHANGED guardedOthers

\* the task is cancelled during the backoff wait: CancelledError is raised
\* inside the except clause (retry.py 64) and leaves the wrapper
cancel_sleep ==
    /\ r_pc = "sleeping"
    /\ r_pc' = "raised"
    /\ r_outcome' = Exc("CancelledError", r_calls)
    /\ g_cancel' = "sleep"
    /\ UNCHANGED <<max_attempts, retryable_exceptions, script, attempt,
                   last_exception, r_calls, r_sleeps>>
    /\ UNCHANGED <<g_operation, g_url, g_pc, g_before, g_violation>>
    /\ UNCHANGED cbVars
    /\ UNCHANGED guardedOthers

NextLayered ==
    \/ guarded_call
    \/ guarded_rejected
    \/ guarded_admitted
    \/ guarded_raises
    \/ guarded_returns
    \/ guarded_sleep_done
    \/ cancel_in_flight
    \/ cancel_sleep
    \/ Tick

(***************************************************************************)
(* HealthMonitor: resilience/health.py.  status is the dict of the tracked *)
(* sources; last_check (the wall clock) is left out.  hm_history records,  *)
(* for every source, what the calls made so far amount to: the kind of the *)
(* last call that touched it, the failures recorded since its last success *)
(* or reset, and the error of the last failure.                            *)
(***************************************************************************)
MaxFailures == 3     \* record_failure calls in a row for one source

\* source names; the empty name is a str like any other
MonitoredSources == {"serpapi", "instagram", ""}

ErrorMessages == {"Rate limited", "Timeout"}

EventCounts == {0, 25}

\* last_error: None
NoLastError == "<None>"

\* reset(source=None)
AllSources == "<all>"

SourceStatus(healthy, event_count, consecutive_failures, error) ==
    [healthy |-> healthy,
     event_count |-> event_count,
     consecutive_failures |-> consecutive_failures,
     last_error |-> error]

History(last, failures, error) ==
    [last |-> last, failures |-> failures, error |-> error]

NoHistory == History("none", 0, NoLastError)

HealthCall(method, source) == [method |-> method, source |-> source]

\* self.status[source] = entry
Put(dict, source, entry) ==
    [k \in DOMAIN dict \cup {source} |-> IF k = source THEN entry ELSE dict[k]]

\* del self.status[source]
Delete(dict, source) == [k \in DOMAIN dict \ {source} |-> dict[k]]

\* HealthMonitor.__init__
Health_init ==
    /\ status = <<>>
    /\ hm_history = [source \in MonitoredSources |-> NoHistory]
    /\ hm_call = HealthCall("__init__", AllSources)

\* variant of the counter that starts again at every failure
consecutive_after_restart(dict, source) == 1

\* current.get("consecutive_failures", 0) + 1, lines 49-50
consecutive_after(dict, source) ==
    (IF source \in DOMAIN dict THEN dict[source].consecutive_failures ELSE 0)
    + 1

record_success ==
    \E source \in MonitoredSources, event_count \in EventCounts :
        /\ status' = Put(status, source,
                         SourceStatus(TRUE, event_count, 0, NoLastError))
        /\ hm_history' = [hm_history EXCEPT
                             ![source] = History("success", 0, NoLastError)]
        /\ hm_call' = HealthCall("record_success", source)
        /\ UNCHANGED healthOthers

record_failure ==
    \E source \in MonitoredSources, error \in ErrorMessages :
        /\ consecutive_after(status, source) <= MaxFailures
        /\ status' = Put(status, source,
                         SourceStatus(FALSE, 0,
                                      consecutive_after(status, source),
                                      error))
        /\ hm_history' = [hm_history EXCEPT
                             ![source] = History("failure", @.failures + 1,
                                                 error)]
        /\ hm_call' = HealthCall("record_failure", source)
        /\ UNCHANGED healthOthers

\* reset: `if source:` is false for None and for the empty name, and then
\* every source is cleared
HM_reset ==
    \E source \in MonitoredSources \cup {AllSources} :
        /\ IF source # AllSources /\ source # ""
           THEN /\ status' = IF source \in DOMAIN status
                             THEN Delete(status, source)
                             ELSE status
                /\ hm_history' = [hm_history EXCEPT
                                     ![source] = History("reset", 0,
                                                         NoLastError)]
           ELSE /\ status' = <<>>
                /\ hm_history' = [k \in MonitoredSources |->
                                     History("reset", 0, NoLastError)]
        /\ hm_call' = HealthCall("reset", source)
        /\ UNCHANGED healthOthers

\* variant of is_healthy that takes an unknown source for unhealthy
is_healthy_known_only(source) ==
    IF source \in DOMAIN status THEN status[source].healthy ELSE FALSE

\* self.status.get(source, {}).get("healthy", True)
is_healthy(source) ==
    IF source \in DOMAIN status THEN status[source].healthy ELSE TRUE

\* get_status()["summary"]
Summary(healthy_count, total_count) ==
    [healthy |-> healthy_count,
     unhealthy |-> total_count - healthy_count,
     total |-> total_count]

get_status ==
    Summary(Cardinality({k \in DOMAIN status : status[k].healthy}),
            Cardinality(DOMAIN status))

get_healthy_sources == {k \in DOMAIN status : status[k].healthy}

\* variant of get_unhealthy_sources that lists every tracked source
get_unhealthy_sources_all == DOMAIN status

get_unhealthy_sources == {k \in DOMAIN status : ~status[k].healthy}

NextHealth ==
    \/ record_success
    \/ record_failure
    \/ HM_reset


(***************************************************************************)
(* The backoff waits of retry_with_backoff (retry.py 45-63) with jitter    *)
(* off, for a function whose failures are all retryable.  A float is held  *)
(* as m * 2^e with a small whole m; exponential_base is a power of two, so *)
(* every product below is exact in double precision as long as it is       *)
(* finite.                                                                 *)
(***************************************************************************)
MaxBackoffAttempts == 4    \* max_attempts ranges over 0..MaxBackoffAttempts

\* sys.float_info.max_exp: 2.0 ** 1024 is out of range
MAX_EXP == 1024

Float(m, e) == [m |-> m, e |-> e]

OverflowError == [m |-> -1, e |-> 0]

\* how far apart two exponents can be before the mantissas stop mattering
MaxMantissaBits == 8

\* a <= b
float_le(a, b) ==
    IF a.m = 0 THEN TRUE
    ELSE IF b.m = 0 THEN FALSE
    ELSE IF a.e >= b.e
         THEN IF a.e - b.e > MaxMantissaBits
              THEN FALSE
              ELSE a.m * Pow2(a.e - b.e) <= b.m
         ELSE IF b.e - a.e > MaxMantissaBits
              THEN TRUE
              ELSE a.m <= b.m * Pow2(b.e - a.e)

float_eq(a, b) == float_le(a, b) /\ float_le(b, a)

\* min(a, b): a unless b is smaller
float_min(a, b) == IF float_le(a, b) THEN a ELSE b

\* a * b; a product beyond the largest double is inf, which min() below
\* replaces by max_delay just as it replaces the exact product
float_mul(a, b) == Float(a.m * b.m, a.e + b.e)

\* base ** k for base a power of two: OverflowError (34, 'Numerical result
\* out of range') when the result is 2^1024 or more
float_pow(base, k) ==
    IF base.e * k >= MAX_EXP THEN OverflowError ELSE Float(1, base.e * k)

\* retry.py 47-50: min(base_delay * (exponential_base**attempt), max_delay)
delay(k) ==
    IF float_pow(b_exponential_base, k) = OverflowError
    THEN OverflowError
    ELSE float_min(float_mul(b_base_delay, float_pow(b_exponential_base, k)),
                   b_max_delay)

\* 0.0, 1.0, 1.5
BaseDelays == {Float(0, 0), Float(1, 0), Float(3, -1)}

\* 0.0, 1.0, 3.0
MaxDelays == {Float(0, 0), Float(1, 0), Float(3, 0)}

\* 0.5, 1.0, 2.0 and 2.0 ** 512
ExponentialBases == {Float(1, -1), Float(1, 0), Float(1, 1), Float(1, 512)}

NoBackoffOutcome == "<none>"

Backoff_parked ==
    /\ b_max_attempts = 3
    /\ b_base_delay = Float(1, 0)
    /\ b_max_delay = Float(3, 0)
    /\ b_exponential_base = Float(1, 1)
    /\ b_pc = "idle"
    /\ b_attempt = 0
    /\ b_calls = 0
    /\ b_waits = <<>>
    /\ b_outcome = NoBackoffOutcome

\* retry_with_backoff(max_attempts, base_delay, max_delay, exponential_base,
\* jitter=False)
Backoff_init ==
    /\ b_max_attempts \in 0..MaxBackoffAttempts
    /\ b_base_delay \in BaseDelays
    /\ b_max_delay \in MaxDelays
    /\ b_exponential_base \in ExponentialBases
    /\ b_pc = "idle"
    /\ b_attempt = 0
    /\ b_calls = 0
    /\ b_waits = <<>>
    /\ b_outcome = NoBackoffOutcome

\* the wrapper is called: for attempt in range(max_attempts), and
\* `raise last_exception` with None when the range is empty
backoff_call ==
    /\ b_pc = "idle"
    /\ IF b_max_attempts > 0
       THEN /\ b_pc' = "awaiting"
            /\ UNCHANGED b_outcome
       ELSE /\ b_pc' = "raised"
            /\ b_outcome' = "TypeError"
    /\ UNCHANGED <<b_max_attempts, b_base_delay, b_max_delay,
                   b_exponential_base, b_attempt, b_calls, b_waits>>
    /\ UNCHANGED backoffOthers

\* return await func(*args, **kwargs)
backoff_func_returns ==
    /\ b_pc = "awaiting"
    /\ b_pc' = "returned"
    /\ b_calls' = b_calls + 1
    /\ b_outcome' = "result"
    /\ UNCHANGED <<b_max_attempts, b_base_delay, b_max_delay,
                   b_exponential_base, b_attempt, b_waits>>
    /\ UNCHANGED backoffOthers

\* func raises a retryable exception: lines 43-63, and 66-72 after the
\* last attempt
backoff_func_raises ==
    /\ b_pc = "awaiting"
    /\ b_calls' = b_calls + 1
    /\ IF b_attempt < b_max_attempts - 1
       THEN IF delay(b_attempt) = OverflowError
            THEN /\ b_pc' = "raised"
                 /\ b_outcome' = "OverflowError"
                 /\ UNCHANGED b_waits
            ELSE /\ b_pc' = "sleeping"
                 /\ b_waits' = Append(b_waits, delay(b_attempt))
                 /\ UNCHANGED b_outcome
       ELSE /\ b_pc' = "raised"
            /\ b_outcome' = "last_exception"
            /\ UNCHANGED b_waits
    /\ UNCHANGED <<b_max_attempts, b_base_delay, b_max_delay,
                   b_exponential_base, b_attempt>>
    /\ UNCHANGED backoffOthers

\* await asyncio.sleep(delay) returns: the next attempt
backoff_sleep_done ==
    /\ b_pc = "sleeping"
    /\ b_attempt' = b_attempt + 1
    /\ b_pc' = "awaiting"
    /\ UNCHANGED <<b_max_attempts, b_base_delay, b_max_delay,
                   b_exponential_base, b_calls, b_waits, b_outcome>>
    /\ UNCHANGED backoffOthers

NextBackoff ==
    \/ backoff_call
    \/ backoff_func_returns
    \/ backoff_func_raises
    \/ backoff_sleep_done


(***************************************************************************)
(* EventAggregatorServer.fetch_events and _fetch_all_sources (__main__.py  *)
(* 38-161) over the three source adapters.  An adapter is modelled by what *)
(* it returns for each way its requests can go: a request raises, or it    *)
(* answers with a number of events.  An event is held as the name of the   *)
(* fetch that produced it.  fe_log records, apart from the lists the code  *)
(* builds, every adapter call made: its name, how its requests went and    *)
(* the events it returned.                                                 *)
(***************************************************************************)
MaxFetched == 1       \* events parsed from one answer: 0..MaxFetched

\* a request that raises, among the numbers of events of those that answer
RequestRaises == -1

\* what one request does
Responses == {RequestRaises} \cup (0..MaxFetched)

IngestSources == {"serpapi", "instagram", "web"}

InstagramHandles == <<"venue_a", "venue_b">>

WebUrls == <<"https://a.example/events", "https://b.example/events">>

\* the name a fetch goes by in failed_sources: "serpapi", "instagram",
\* f"web:{url}"
FetchName(source, url) == [source |-> source, url |-> url]

EventsFrom(fetch_name, n) == [i \in 1..n |-> fetch_name]

\* the tuple (events, stats) an adapter returns
Fetched(events, stats) == [events |-> events, stats |-> stats]

\* serpapi.py 43-131
fetch_serpapi_events(api_key, response) ==
    IF ~api_key
    THEN Fetched(<<>>, FetchStats("serpapi", 0, "skipped"))
    ELSE IF response = RequestRaises
         THEN Fetched(<<>>, FetchStats("serpapi", 0, "error"))
         ELSE Fetched(EventsFrom(FetchName("serpapi", ""), response),
                      FetchStats("serpapi", response, "success"))

\* instagram.py 83-98: the events of the handles whose request answered
RECURSIVE instagram_events(_, _)
instagram_events(handles, responses) ==
    IF handles = <<>> THEN <<>>
    ELSE LET here == IF responses[1] = RequestRaises
                     THEN <<>>
                     ELSE EventsFrom(FetchName("instagram", ""), responses[1])
         IN  here \o instagram_events(Tail(handles), Tail(responses))

\* instagram.py 98-99: errors
instagram_errors(handles, responses) ==
    {i \in 1..Len(handles) : responses[i] = RequestRaises}

\* instagram.py 103: status = "success" if not errors else "partial"
instagram_status(events, errors) ==
    IF errors = {} THEN "success" ELSE "partial"

\* instagram.py 61-112
fetch_instagram_events(api_key, handles, responses) ==
    IF ~api_key
    THEN Fetched(<<>>, FetchStats("instagram", 0, "skipped"))
    ELSE IF handles = <<>>
         THEN Fetched(<<>>, FetchStats("instagram", 0, "skipped"))
         ELSE LET events == instagram_events(handles, responses)
                  errors == instagram_errors(handles, responses)
              IN  Fetched(events,
                          FetchStats("instagram", Len(events),
                                     instagram_status(events, errors)))

\* web_scraper.py 73-134: the guard or the request raises, or the page is
\* parsed
scrape_event_page(url, response) ==
    IF response = RequestRaises
    THEN Fetched(<<>>, FetchStats("web", 0, "error"))
    ELSE Fetched(EventsFrom(FetchName("web", url), response),
                 FetchStats("web", response, "success"))

\* error = name if stats.status == "error" else None; if err: failed.append
error_of(fetch_name, stats) ==
    IF stats.status = "error" THEN {fetch_name} ELSE {}

\* how the requests of one adapter call went
Ended(responses, skipped) ==
    IF skipped THEN "skipped"
    ELSE IF \A i \in 1..Len(responses) : responses[i] = RequestRaises
         THEN "error"
         ELSE IF \E i \in 1..Len(responses) : responses[i] = RequestRaises
              THEN "partial"
              ELSE "success"

LogEntry(fetch_name, ended, events) ==
    [name |-> fetch_name, ended |-> ended, events |-> events]

\* FetchResult(...).model_dump()
FetchResultDump(events, stats, total, failed_sources) ==
    [events |-> events, stats |-> stats, total |-> total,
     failed_sources |-> failed_sources]

NoDump == FetchResultDump(<<>>, <<>>, -1, <<>>)

Ingest_parked ==
    /\ fe_sources = {}
    /\ fe_handles = <<>>
    /\ fe_urls = <<>>
    /\ fe_keys = {}
    /\ fe_pc = "idle"
    /\ fe_k = 0
    /\ all_events = <<>>
    /\ all_stats = <<>>
    /\ failed = <<>>
    /\ fe_log = <<>>
    /\ fe_result = NoDump

\* the arguments of fetch_events and the API keys of the environment
Ingest_init ==
    /\ fe_sources \in SUBSET IngestSources
    /\ fe_handles \in {SubSeq(InstagramHandles, 1, n) : n \in 0..Len(InstagramHandles)}
    /\ fe_urls \in {SubSeq(WebUrls, 1, n) : n \in 0..Len(WebUrls)}
    /\ fe_keys \in SUBSET {"SERPAPI_KEY", "SCRAPECREATORS_KEY"}
    /\ fe_pc = "idle"
    /\ fe_k = 0
    /\ all_events = <<>>
    /\ all_stats = <<>>
    /\ failed = <<>>
    /\ fe_log = <<>>
    /\ fe_result = NoDump

\* sources = sources or ["serpapi"]
sources_or_default == IF fe_sources = {} THEN {"serpapi"} ELSE fe_sources

\* all_events.extend(events); all_stats.append(stats); if err: failed.append
collect(fetch_name, fetched, ended) ==
    /\ all_events' = all_events \o fetched.events
    /\ all_stats' = Append(all_stats, fetched.stats)
    /\ failed' = IF error_of(fetch_name, fetched.stats) = {}
                 THEN failed
                 ELSE Append(failed, fetch_name)
    /\ fe_log' = Append(fe_log, LogEntry(fetch_name, ended, fetched.events))

\* fetch_events is called: lines 38-63, 97
fetch_events_call ==
    /\ fe_pc = "idle"
    /\ fe_pc' = "serpapi"
    /\ UNCHANGED <<fe_sources, fe_handles, fe_urls, fe_keys, fe_k, all_events,
                   all_stats, failed, fe_log, fe_result>>
    /\ UNCHANGED ingestOthers

\* lines 99-106
ingest_serpapi ==
    /\ fe_pc = "serpapi"
    /\ IF "serpapi" \in sources_or_default
       THEN \E response \in Responses :
                collect(FetchName("serpapi", ""),
                        fetch_serpapi_events("SERPAPI_KEY" \in fe_keys,
                                             response),
                        Ended(<<response>>, "SERPAPI_KEY" \notin fe_keys))
       ELSE UNCHANGED <<all_events, all_stats, failed, fe_log>>
    /\ fe_pc' = "instagram"
    /\ UNCHANGED <<fe_sources, fe_handles, fe_urls, fe_keys, fe_k, fe_result>>
    /\ UNCHANGED ingestOthers

\* lines 108-113
ingest_instagram ==
    /\ fe_pc = "instagram"
    /\ IF "instagram" \in sources_or_default /\ fe_handles # <<>>
       THEN \E responses \in [1..Len(fe_handles) -> Responses] :
                collect(FetchName("instagram", ""),
                        fetch_instagram_events("SCRAPECREATORS_KEY" \in fe_keys,
                                               fe_handles, responses),
                        Ended(responses, "SCRAPECREATORS_KEY" \notin fe_keys))
       ELSE UNCHANGED <<all_events, all_stats, failed, fe_log>>
    /\ fe_pc' = "web"
    /\ fe_k' = 1
    /\ UNCHANGED <<fe_sources, fe_handles, fe_urls, fe_keys, fe_result>>
    /\ UNCHANGED ingestOthers

\* lines 115-121: one URL of web_urls
ingest_web ==
    /\ fe_pc = "web"
    /\ "web" \in sources_or_default
    /\ fe_k <= Len(fe_urls)
    /\ \E response \in Responses :
           collect(FetchName("web", fe_urls[fe_k]),
                   scrape_event_page(fe_urls[fe_k], response),
                   Ended(<<response>>, FALSE))
    /\ fe_k' = fe_k + 1
    /\ UNCHANGED <<fe_sources, fe_handles, fe_urls, fe_keys, fe_pc, fe_result>>
    /\ UNCHANGED ingestOthers

\* lines 123 and 65-71
fetch_events_returns ==
    /\ fe_pc = "web"
    /\ "web" \in sources_or_default => fe_k > Len(fe_urls)
    /\ fe_result' = FetchResultDump(all_events, all_stats, Len(all_events),
                                    failed)
    /\ fe_pc' = "returned"
    /\ UNCHANGED <<fe_sources, fe_handles, fe_urls, fe_keys, fe_k, all_events,
                   all_stats, failed, fe_log>>
    /\ UNCHANGED ingestOthers

NextIngest ==
    \/ fetch_events_call
    \/ ingest_serpapi
    \/ ingest_instagram
    \/ ingest_web
    \/ fetch_events_returns

(***************************************************************************)
(* Specifications: one component runs, the others stay as constructed.     *)
(***************************************************************************)
CB_parked ==
    /\ failure_threshold = 5
    /\ recovery_timeout = 60
    /\ name = "default"
    /\ failure_count = 0
    /\ state = CLOSED
    /\ last_failure_time = None
    /\ success_count_in_half_open = 0
    /\ now = 0
    /\ in_flight = 0
    /\ invoked = 0
    /\ run = 0
    /\ cb_event = CbEvent("init", NoError, CLOSED)

Retry_parked ==
    /\ max_attempts = 3
    /\ retryable_exceptions = {"Exception"}
    /\ script = [i \in 1..MaxAttempts |-> "ok"]
    /\ Retry_idle

Fallback_parked ==
    /\ functions = <<>>
    /\ f_args = "args1"
    /\ Fallback_idle

InitCB ==
    /\ CB_init
    /\ Retry_parked
    /\ Fallback_parked
    /\ Dedup_parked
    /\ Merge_parked
    /\ Threshold_parked
    /\ Url_parked
    /\ Fetch_parked
    /\ Guarded_parked
    /\ Health_init
    /\ Backoff_parked
    /\ Ingest_parked

SpecCB == InitCB /\ [][NextCB]_vars

InitRetry ==
    /\ Retry_init
    /\ CB_parked
    /\ Fallback_parked
    /\ Dedup_parked
    /\ Merge_parked
    /\ Threshold_parked
    /\ Url_parked
    /\ Fetch_parked
    /\ Guarded_parked
    /\ Health_init
    /\ Backoff_parked
    /\ Ingest_parked

SpecRetry == InitRetry /\ [][NextRetry]_vars

InitFallback ==
    /\ Fallback_init
    /\ CB_parked
    /\ Retry_parked
    /\ Dedup_parked
    /\ Merge_parked
    /\ Threshold_parked
    /\ Url_parked
    /\ Fetch_parked
    /\ Guarded_parked
    /\ Health_init
    /\ Backoff_parked
    /\ Ingest_parked

SpecFallback == InitFallback /\ [][NextFallback]_vars

InitDedup ==
    /\ Dedup_init
    /\ CB_parked
    /\ Retry_parked
    /\ Fallback_parked
    /\ Merge_parked
    /\ Threshold_parked
    /\ Url_parked
    /\ Fetch_parked
    /\ Guarded_parked
    /\ Health_init
    /\ Backoff_parked
    /\ Ingest_parked

SpecDedup == InitDedup /\ [][NextDedup]_vars

InitSim ==
    /\ Sim_init
    /\ CB_parked
    /\ Retry_parked
    /\ Fallback_parked
    /\ Merge_parked
    /\ Threshold_parked
    /\ Url_parked
    /\ Fetch_parked
    /\ Guarded_parked
    /\ Health_init
    /\ Backoff_parked
    /\ Ingest_parked

SpecSim == InitSim /\ [][NextSim]_vars

InitMerge ==
    /\ Merge_init
    /\ CB_parked
    /\ Retry_parked
    /\ Fallback_parked
    /\ Dedup_parked
    /\ Threshold_parked
    /\ Url_parked
    /\ Fetch_parked
    /\ Guarded_parked
    /\ Health_init
    /\ Backoff_parked
    /\ Ingest_parked

SpecMerge == InitMerge /\ [][NextMerge]_vars

InitThreshold ==
    /\ Threshold_init
    /\ CB_parked
    /\ Retry_parked
    /\ Fallback_parked
    /\ Dedup_parked
    /\ Merge_parked
    /\ Url_parked
    /\ Fetch_parked
    /\ Guarded_parked
    /\ Health_init
    /\ Backoff_parked
    /\ Ingest_parked

SpecThreshold == InitThreshold /\ [][NextThreshold]_vars

InitUrl ==
    /\ Url_init
    /\ CB_parked
    /\ Retry_parked
    /\ Fallback_parked
    /\ Dedup_parked
    /\ Merge_parked
    /\ Threshold_parked
    /\ Fetch_parked
    /\ Guarded_parked
    /\ Health_init
    /\ Backoff_parked
    /\ Ingest_parked

SpecUrl == InitUrl /\ [][NextUrl]_vars

InitFetch ==
    /\ Fetch_init
    /\ CB_parked
    /\ Retry_parked
    /\ Fallback_parked
    /\ Dedup_parked
    /\ Merge_parked
    /\ Threshold_parked
    /\ Url_parked
    /\ Guarded_parked
    /\ Health_init
    /\ Backoff_parked
    /\ Ingest_parked

SpecFetch == InitFetch /\ [][NextFetch]_vars

InitGuarded ==
    /\ Guarded_init
    /\ CB_init
    /\ name = "default"
    /\ max_attempts \in 0..MaxAttempts
    /\ retryable_exceptions \in GuardedAllowLists
    /\ script = [i \in 1..MaxAttempts |-> "ok"]
    /\ Retry_idle
    /\ Fallback_parked
    /\ Dedup_parked
    /\ Merge_parked
    /\ Threshold_parked
    /\ Url_parked
    /\ Fetch_parked
    /\ Health_init
    /\ Backoff_parked
    /\ Ingest_parked

SpecGuarded == InitGuarded /\ [][NextGuarded]_vars

\* a breaker that can open and stay open for a while, under a wrapper that
\* makes at least one attempt and retries either every Exception or
\* transport errors only
InitLayered ==
    /\ InitGuarded
    /\ failure_threshold >= 1
    /\ recovery_timeout >= 1
    /\ max_attempts >= 1
    /\ retryable_exceptions \in {{"Exception"}, {"OSError", "ValueError"}}

SpecLayered == InitLayered /\ [][NextLayered]_vars

InitHealth ==
    /\ Health_init
    /\ CB_parked
    /\ Retry_parked
    /\ Fallback_parked
    /\ Dedup_parked
    /\ Merge_parked
    /\ Threshold_parked
    /\ Url_parked
    /\ Fetch_parked
    /\ Guarded_parked
    /\ Backoff_parked
    /\ Ingest_parked

SpecHealth == InitHealth /\ [][NextHealth]_vars

InitBackoff ==
    /\ Backoff_init
    /\ CB_parked
    /\ Retry_parked
    /\ Fallback_parked
    /\ Dedup_parked
    /\ Merge_parked
    /\ Threshold_parked
    /\ Url_parked
    /\ Fetch_parked
    /\ Guarded_parked
    /\ Health_init
    /\ Ingest_parked

SpecBackoff == InitBackoff /\ [][NextBackoff]_vars

InitIngest ==
    /\ Ingest_init
    /\ CB_parked
    /\ Retry_parked
    /\ Fallback_parked
    /\ Dedup_parked
    /\ Merge_parked
    /\ Threshold_parked
    /\ Url_parked
    /\ Fetch_parked
    /\ Guarded_parked
    /\ Health_init
    /\ Backoff_parked

SpecIngest == InitIngest /\ [][NextIngest]_vars

(***************************************************************************)
(* Properties of the circuit breaker                                       *)
(***************************************************************************)
IsCallStep == cb_event'.op \in {"admitted", "rejected"}

TimeoutPending ==
    /\ last_failure_time # None
    /\ now - last_failure_time < recovery_timeout

TimeoutElapsed ==
    /\ last_failure_time # None
    /\ now - last_failure_time >= recovery_timeout

\* C1: a call made while the breaker is Open and less than recovery_timeout
\* has elapsed since the last recorded failure fails with
\* CircuitBreakerOpenError carrying the circuit's name, and the wrapped
\* operation is not started (no invocation, nothing in flight added, breaker
\* fields untouched).
C1_FastFailWhileOpen ==
    [][(state = OPEN /\ TimeoutPending /\ IsCallStep)
         => /\ cb_event'.op = "rejected"
            /\ cb_event'.error.type = "CircuitBreakerOpenError"
            /\ cb_event'.error.circuit_name = name
            /\ invoked' = invoked
            /\ in_flight' = in_flight
            /\ state' = OPEN]_vars

C1_Witness ==
    /\ cb_event.op = "rejected"
    /\ cb_event.error.circuit_name = name
    /\ state = OPEN
    /\ TimeoutPending
    /\ invoked >= 1

\* C2: with failure_threshold = N >= 1, a Closed breaker holds fewer than N
\* consecutive failures; it becomes Open exactly on the failing call that
\* makes the run of failures since the last success reach N, every shorter
\* run leaves it Closed, and a success while Closed sets failure_count to 0.
C2_ClosedStep ==
    (failure_threshold >= 1 /\ state = CLOSED)
      => /\ (state' = OPEN) <=>
               (cb_event'.op = "failure" /\ run + 1 = failure_threshold)
         /\ (cb_event'.op = "failure" /\ run + 1 < failure_threshold)
               => state' = CLOSED
         /\ cb_event'.op = "success"
               => (failure_count' = 0 /\ state' = CLOSED)

C2_OpensExactlyAtThreshold ==
    /\ []((failure_threshold >= 1 /\ state = CLOSED)
            => (run < failure_threshold /\ failure_count = run))
    /\ [][C2_ClosedStep]_vars

C2_Witness ==
    /\ failure_threshold = 2
    /\ state = OPEN
    /\ cb_event.op = "failure"
    /\ cb_event.from = CLOSED
    /\ run = 2
    /\ invoked = 4

\* C3: a call made while the breaker is Open and at least recovery_timeout
\* has elapsed since the last recorded failure moves the breaker to HalfOpen
\* and starts the wrapped operation; with recovery_timeout = 0 every call
\* made while Open is admitted.
C3_ProbeAfterTimeout ==
    /\ [][(state = OPEN /\ TimeoutElapsed /\ IsCallStep)
            => /\ cb_event'.op = "admitted"
               /\ state' = HALF_OPEN
               /\ invoked' = invoked + 1
               /\ in_flight' = in_flight + 1]_vars
    /\ [][(state = OPEN /\ recovery_timeout = 0 /\ IsCallStep)
            => (cb_event'.op = "admitted" /\ state' = HALF_OPEN)]_vars

C3_Witness ==
    /\ cb_event.op = "admitted"
    /\ cb_event.from = OPEN
    /\ state = HALF_OPEN
    /\ recovery_timeout >= 1
    /\ now - last_failure_time = recovery_timeout
    /\ in_flight = 1

\* C4: in HalfOpen the first successful call leaves the breaker HalfOpen and
\* the second consecutive one closes it with failure_count = 0; the success
\* count is 0 on every entry into HalfOpen.
C4_TwoSuccessesClose ==
    /\ [](state = HALF_OPEN => success_count_in_half_open \in {0, 1})
    /\ [][(state = HALF_OPEN /\ cb_event'.op = "success")
            => IF success_count_in_half_open = 0
               THEN state' = HALF_OPEN /\ success_count_in_half_open' = 1
               ELSE state' = CLOSED /\ failure_count' = 0]_vars
    /\ [][(state # HALF_OPEN /\ state' = HALF_OPEN)
            => success_count_in_half_open' = 0]_vars

C4_Witness ==
    /\ state = CLOSED
    /\ cb_event.op = "success"
    /\ cb_event.from = HALF_OPEN
    /\ success_count_in_half_open = 2
    /\ failure_count = 0

\* C5: a failing call in HalfOpen returns the breaker to Open and records
\* that failure's time as last_failure_time; a call made while Open is
\* admitted only when recovery_timeout has elapsed since that time.
C5_HalfOpenFailureReopens ==
    /\ [][(state = HALF_OPEN /\ cb_event'.op = "failure")
            => (state' = OPEN /\ last_failure_time' = now)]_vars
    /\ [][(state = OPEN /\ cb_event'.op = "admitted")
            => TimeoutElapsed]_vars

C5_Witness ==
    /\ cb_event.op = "failure"
    /\ cb_event.from = HALF_OPEN
    /\ state = OPEN
    /\ last_failure_time = now
    /\ now >= 1
    /\ recovery_timeout >= 1

(***************************************************************************)
(* Properties of retry_with_backoff                                        *)
(***************************************************************************)
RetryDone == r_pc \in {"returned", "raised"}

\* The class of a raised exception is in the allow-list: it is an instance
\* of a class the tuple names
InAllowList(cls) ==
    /\ cls # "ok"
    /\ \E c \in retryable_exceptions : IsSubclass(cls, c)

\* func fails with retryable errors at its first k invocations
FailsRetryably(k) == \A i \in 1..k : InAllowList(script[i])

C8_NonRetryablePropagates ==
    \A n \in 1..max_attempts :
      (FailsRetryably(n - 1) /\ script[n] # "ok" /\ ~InAllowList(script[n]))
        => /\ r_calls <= n
           /\ r_sleeps <= n - 1
           /\ r_pc # "returned"
           /\ r_pc = "raised"
                => /\ r_calls = n
                   /\ r_sleeps = n - 1
                   /\ r_outcome = Exc(script[n], n)

C8_Witness ==
    /\ max_attempts = 3
    /\ r_pc = "raised"
    /\ r_calls = 2
    /\ r_sleeps = 1
    /\ r_outcome.cls = "ValueError"
    /\ ~InAllowList("ValueError")
    /\ script[3] = "ok"

(***************************************************************************)
(* Properties of FallbackChain.execute                                     *)
(***************************************************************************)
\* C9: the invocations execute makes are alternatives 1, 2, ... in that
\* order, each once, each with execute's own arguments; no alternative is
\* invoked after one has succeeded; and when execute returns, it returns
\* the result of the first alternative that succeeds.
C9_FirstSuccessInOrder ==
    /\ Len(f_log) <= Len(functions)
    /\ \A j \in 1..Len(f_log) : f_log[j] = Invocation(j, f_args)
    /\ \A j \in 1..(Len(f_log) - 1) : functions[j] # "ok"
    /\ f_pc = "returned"
         => /\ Len(f_log) >= 1
            /\ functions[Len(f_log)] = "ok"
            /\ f_outcome = Result(Len(f_log))
    /\ \A k \in 1..Len(functions) :
         (/\ functions[k] = "ok"
          /\ \A j \in 1..(k - 1) : IsSubclass(functions[j], "Exception")
          /\ f_pc \in {"returned", "raised"})
           => (f_pc = "returned" /\ f_outcome = Result(k))

C9_Witness ==
    /\ Len(functions) = 3
    /\ f_pc = "returned"
    /\ f_outcome = Result(2)
    /\ functions[3] = "ok"
    /\ f_log = <<Invocation(1, f_args), Invocation(2, f_args)>>

\* C10: when every alternative of a non-empty chain fails (raises an
\* Exception), execute ends by raising the exception object of the last
\* alternative, after each alternative has been invoked exactly once.
C10_AllFailRaisesLast ==
    (/\ Len(functions) >= 1
     /\ \A j \in 1..Len(functions) :
          functions[j] # "ok" /\ IsSubclass(functions[j], "Exception"))
      => /\ f_pc # "returned"
         /\ f_pc = "raised"
              => /\ f_outcome = Exc(functions[Len(functions)], Len(functions))
                 /\ Len(f_log) = Len(functions)
                 /\ \A j \in 1..Len(functions) : f_log[j].fn = j

C10_Witness ==
    /\ Len(functions) = 3
    /\ f_pc = "raised"
    /\ functions[1] # functions[3]
    /\ functions[2] # functions[3]
    /\ f_outcome = Exc(functions[3], 3)
    /\ Len(f_log) = 3

(***************************************************************************)
(* Claims about dedup.py                                                   *)
(***************************************************************************)
\* a deduplicate call that scored at least one list of events
Deduplicated == d_op \in {"deduplicate", "again"} /\ d_events # <<>>

\* C11: a weights override applies to the call it is passed to only: a
\* deduplicate call made without an override scores with the default weights
\* (0.50, 0.35, 0.15), and so does a similarity call, whatever calls came
\* before.
C11_OverrideIsLocal ==
    /\ (Deduplicated /\ ~IsTruthy(d_weights))
          => d_result.used = DefaultWeights
    /\ (d_op = "similarity")
          => similarity = calculate_similarity(sim_e1, sim_e2, DefaultWeights)

\* the configurations the claim calls valid: weights summing to 1.0 within
\* 0.01 (or no override), and a threshold in (0, 1]
ValidWeights(weights) ==
    \/ ~IsTruthy(weights)
    \/ Abs(weights.title + weights.venue + weights.time - 100) <= 1
ValidThreshold(threshold) == 0 < threshold /\ threshold <= 100

\* C12: deduplicate rejects an invalid configuration at call time: with
\* weights that do not sum to 1.0 within 0.01, or a threshold outside (0, 1],
\* no result is produced.
C12_InvalidConfigRejected ==
    (/\ d_op = "deduplicate"
     /\ d_events # <<>>
     /\ (~ValidWeights(d_weights) \/ ~ValidThreshold(d_threshold)))
        => d_result.status # "ok"

\* C13: deduplicate run on the events a deduplicate call returned, with the
\* same threshold, removes nothing: duplicates_removed = 0 and as many
\* events come back as went in.
C13_Idempotent ==
    (d_op = "again")
        => /\ d_result.duplicates_removed = 0
           /\ Len(d_result.events) = Len(d_events)

\* the record choose_primary_event kept and the one it dropped
Winner == IF m_first THEN m_e1 ELSE m_e2
Loser == IF m_first THEN m_e2 ELSE m_e1

\* C14: merging never discards data that exists only on the losing record:
\* the kept record has the longer non-empty description, has price, ticket
\* URL and image URL filled from the loser where its own was empty, carries
\* the union of both tag and image lists, and every other value present only
\* on the loser (here: the category) is present on the kept record.
C14_MergeKeepsLoserData ==
    (m_op = "merge")
        => /\ m_kept.description =
                IF Len(Loser.description) > Len(Winner.description)
                THEN Loser.description ELSE Winner.description
           /\ m_kept.price = IF Winner.price = "" THEN Loser.price
                             ELSE Winner.price
           /\ m_kept.ticket_url = IF Winner.ticket_url = "" THEN Loser.ticket_url
                                  ELSE Winner.ticket_url
           /\ m_kept.image_url = IF Winner.image_url = "" THEN Loser.image_url
                                 ELSE Winner.image_url
           /\ m_kept.tags = Winner.tags \cup Loser.tags
           /\ m_kept.images = Winner.images \cup Loser.images
           /\ (Winner.category = "" /\ Loser.category # "")
                 => m_kept.category = Loser.category

\* the sources of the fixed reliability ranking, most reliable first
Ranked == <<"predicthq", "serpapi", "instagram", "web">>
IsRanked(source) == \E k \in 1..Len(Ranked) : Ranked[k] = source
RankIndex(source) == CHOOSE k \in 1..Len(Ranked) : Ranked[k] = source

\* source a ranks above source b
RanksAbove(a, b) ==
    /\ IsRanked(a)
    /\ IsRanked(b) => RankIndex(a) < RankIndex(b)
SameRank(a, b) == ~RanksAbove(a, b) /\ ~RanksAbove(b, a)

FieldsPresent(e) ==
    Cardinality({f \in {"description", "price", "ticket_url", "image_url"} :
                    CASE f = "description" -> e.description # <<>>
                      [] f = "price" -> e.price # ""
                      [] f = "ticket_url" -> e.ticket_url # ""
                      [] f = "image_url" -> e.image_url # ""})

\* C16 as stated: the completeness score is the number of those four fields
\* present, each counting equally, so at equal rank a record with two of
\* them present outranks a record with one.
C16_CountsFieldsEqually ==
    (m_op = "choose" /\ SameRank(m_e1.source, m_e2.source))
        => /\ FieldsPresent(m_e1) > FieldsPresent(m_e2) => m_first
           /\ FieldsPresent(m_e2) > FieldsPresent(m_e1) => ~m_first

\* description counts 2; price, ticket URL and image URL count 1 each
WeightedFields(e) ==
    FieldsPresent(e) + (IF e.description # <<>> THEN 1 ELSE 0)

\* C16 (amended): the completeness score counts 2 for a present description
\* and 1 each for a present price, ticket URL and image URL; at equal rank
\* the record with the strictly higher score is kept and a tie keeps the
\* earlier record.
C16_DescriptionCountsTwice ==
    (m_op = "choose" /\ SameRank(m_e1.source, m_e2.source))
        => /\ completeness_score(m_e1) = WeightedFields(m_e1)
           /\ completeness_score(m_e2) = WeightedFields(m_e2)
           /\ m_first = (WeightedFields(m_e1) >= WeightedFields(m_e2))

\* a description alone against price and ticket URL: two fields present do
\* not outrank one
C16_Witness ==
    /\ m_op = "choose"
    /\ SameRank(m_e1.source, m_e2.source)
    /\ FieldsPresent(m_e1) = 1 /\ m_e1.description # <<>>
    /\ FieldsPresent(m_e2) = 2 /\ m_e2.description = <<>>
    /\ m_first

\* the lowest index of a merge group
FirstOf(group) == CHOOSE i \in group : \A j \in group : i <= j

\* C17: the emitted events appear in the order of the first (lowest-index)
\* members of their merge groups in the input, also when a later duplicate
\* is the group's primary record: the k-th emitted event is the record kept
\* for the k-th group, the groups split the input, and their first members
\* are in increasing order.
C17_OrderPreserved ==
    (d_op \in {"deduplicate", "again"})
        => /\ Len(d_result.events) = Len(d_result.groups)
           /\ \A k \in 1..Len(d_result.groups) :
                 /\ d_result.refs[k] \in d_result.groups[k]
                 /\ d_result.events[k] = d_result.events_after[d_result.refs[k]]
                 /\ d_result.firsts[k] = FirstOf(d_result.groups[k])
           /\ \A k, l \in 1..Len(d_result.groups) :
                 k < l => /\ FirstOf(d_result.groups[k]) < FirstOf(d_result.groups[l])
                          /\ d_result.groups[k] \cap d_result.groups[l] = {}
           /\ UNION {d_result.groups[k] : k \in 1..Len(d_result.groups)}
                 = 1..Len(d_events)

\* the record kept for the first group stood after the second emitted event
\* in the input
C17_Witness ==
    /\ d_op = "deduplicate"
    /\ Len(d_result.refs) >= 2
    /\ d_result.refs[1] > d_result.refs[2]
    /\ d_result.refs[1] # FirstOf(d_result.groups[1])

\* C18: original_count is the length of the input, duplicates_removed is
\* original_count minus the number of emitted events, and the audit trail
\* holds one DuplicateMatch per removed event; the empty list gives no
\* events and zero counters, a one-element list comes back unchanged with
\* zero duplicates.
C18_CountersConsistent ==
    (d_op \in {"deduplicate", "again"})
        => /\ d_result.original_count = Len(d_events)
           /\ d_result.duplicates_removed
                 = d_result.original_count - Len(d_result.events)
           /\ Len(d_result.audit_trail) = d_result.duplicates_removed
           /\ (d_events = <<>>)
                 => /\ d_result.events = <<>>
                    /\ d_result.original_count = 0
                    /\ d_result.duplicates_removed = 0
                    /\ d_result.audit_trail = <<>>
           /\ (Len(d_events) = 1)
                 => /\ d_result.events = d_events
                    /\ d_result.duplicates_removed = 0

\* three listings merged into one: two removed, two matches recorded
C18_Witness ==
    /\ d_op = "deduplicate"
    /\ Len(d_events) = 3
    /\ Len(d_result.events) = 1
    /\ d_result.duplicates_removed = 2
    /\ Len(d_result.audit_trail) = 2

\* calculate_similarity was applied to an event and itself
SelfCompared == d_op = "similarity" /\ sim_e1 = sim_e2

SameDay == DateOf(sim_e1.start_time) = DateOf(sim_e2.start_time)
Apart == Abs(sim_e1.start_time - sim_e2.start_time)

\* C20: on the same calendar date the time similarity is 1.0 up to 30
\* minutes apart, falls linearly to 0.5 at 4 hours and is 0.5 beyond: it is
\* never below 0.5 on the same day.
C20_SameDayFloor ==
    (d_op = "similarity" /\ SameDay)
        => /\ similarity.time_sim >= SCALE \div 2
           /\ similarity.time_sim =
                 IF Apart <= 1800 THEN SCALE
                 ELSE IF Apart <= 14400
                 THEN SCALE - ((Apart - 1800) * (SCALE \div 2)) \div 12600
                 ELSE SCALE \div 2

\* both events carry a handle and the handles are equal ignoring case
HandlesMatch ==
    /\ sim_e1.venue.instagram_handle # <<>>
    /\ sim_e2.venue.instagram_handle # <<>>
    /\ Lower(sim_e1.venue.instagram_handle) = Lower(sim_e2.venue.instagram_handle)

\* the score of the two normalised venue names, raised by a tenth and capped
\* at 1.0 when city and state agree
NameScore ==
    LET ratio == fuzz_ratio(normalize_venue_name(sim_e1.venue.name),
                            normalize_venue_name(sim_e2.venue.name))
    IN  IF /\ Lower(sim_e1.venue.city) = Lower(sim_e2.venue.city)
           /\ Lower(sim_e1.venue.state) = Lower(sim_e2.venue.state)
        THEN (IF (ratio * 11) \div 10 > SCALE THEN SCALE
              ELSE (ratio * 11) \div 10)
        ELSE ratio

\* C21: venue similarity is 1.0 whenever both events carry a handle and the
\* handles are equal ignoring case, whatever the venue names, cities and
\* states are; without such a match the name-based score is used.
C21_HandleMatchWins ==
    (d_op = "similarity")
        => /\ HandlesMatch => similarity.venue_sim = SCALE
           /\ (/\ ~HandlesMatch
               /\ normalize_venue_name(sim_e1.venue.name) # <<>>
               /\ normalize_venue_name(sim_e2.venue.name) # <<>>)
                 => similarity.venue_sim = NameScore

Validated == u_op = "validate_url"

Accepted == Validated /\ u_outcome.raised = ""

UrlHost == urlparse(Strip(u_url)).hostname

\* localhost and the names the guard treats as its variants
LocalhostName(hostname) ==
    \/ hostname \in BLOCKED_HOSTNAMES
    \/ StartsWith(hostname, <<"l", "o", "c", "a", "l", "h", "o", "s", "t">>)
    \/ EndsWith(hostname, <<".", "l", "o", "c", "a", "l", "h", "o", "s", "t">>)

\* the IPv4 address that an IPv4-mapped IPv6 address (::ffff:a.b.c.d) stands
\* for; any other address stands for itself
Denoted(ip) ==
    IF ip.version = 6 /\ SubSeq(ip.groups, 1, 6) = <<0, 0, 0, 0, 0, 65535>>
    THEN Address(4, <<ip.groups[7] \div 256, ip.groups[7] % 256,
                      ip.groups[8] \div 256, ip.groups[8] % 256>>)
    ELSE ip

InBlockedRange(ip) == _is_blocked_ip(ip) \/ _is_blocked_ip(Denoted(ip))

IsLiteral(hostname) == _parse_ip_address(hostname) # NoAddress

ResolvesToBlocked(hostname) ==
    /\ ~u_dns[hostname].gaierror
    /\ \E ip_str \in u_dns[hostname].addresses :
           /\ IsLiteral(ip_str)
           /\ InBlockedRange(_parse_ip_address(ip_str))

\* C23: validate_url never accepts a URL whose host is localhost or one of
\* its variants, a literal address in a blocked range (the loopback and
\* private addresses in their IPv4-mapped IPv6 form included), or, with
\* resolve_dns set, a name with at least one resolved address in a blocked
\* range, whatever allow-list is supplied.
C23_BlockedHostNeverAccepted ==
    Accepted =>
        /\ ~LocalhostName(UrlHost)
        /\ IsLiteral(UrlHost) => ~InBlockedRange(_parse_ip_address(UrlHost))
        /\ (u_resolve_dns /\ ~IsLiteral(UrlHost)) => ~ResolvesToBlocked(UrlHost)

\* C24: with an allow-list supplied, an accepted host equals an entry or ends
\* with a dot followed by an entry, ignoring case; notexample.com is rejected
\* against the entry example.com.
MatchesEntry(hostname, domain) ==
    \/ Lower(hostname) = Lower(domain)
    \/ /\ Len(hostname) > Len(domain)
       /\ hostname[Len(hostname) - Len(domain)] = "."
       /\ Lower(SubSeq(hostname, Len(hostname) - Len(domain) + 1,
                       Len(hostname))) = Lower(domain)

C24_AllowListIsExactOrSubdomain ==
    /\ (Accepted /\ u_allowed_domains.given) =>
           \E domain \in u_allowed_domains.domains :
               MatchesEntry(UrlHost, domain)
    /\ (/\ Validated
        /\ UrlHost = <<"n", "o", "t", "e", "x", "a", "m", "p", "l", "e", ".", "c", "o", "m">>
        /\ u_allowed_domains = Domains({<<"E", "x", "a", "m", "p", "l", "e", ".", "c", "o", "m">>})) =>
           u_outcome.raised = "SSRFError"

\* a subdomain written in capitals is accepted against the entry Example.com
C24_Witness ==
    /\ Accepted
    /\ u_allowed_domains = Domains({<<"E", "x", "a", "m", "p", "l", "e", ".", "c", "o", "m">>})
    /\ UrlHost = <<"a", "p", "i", ".", "e", "x", "a", "m", "p", "l", "e", ".", "c", "o", "m">>
    /\ urlparse(Strip(u_url)).netloc # UrlHost

\* C25: an accepted URL has the scheme https, or http when require_https is
\* false; every other scheme raises SSRFError; the value returned is the URL
\* without its surrounding whitespace.
UrlScheme == urlparse(Strip(u_url)).scheme

SchemeAllowed ==
    \/ UrlScheme = <<"h", "t", "t", "p", "s">>
    \/ ~u_require_https /\ UrlScheme = <<"h", "t", "t", "p">>

C25_SchemeAndReturnValue ==
    /\ (Validated /\ ~SchemeAllowed) => u_outcome.raised = "SSRFError"
    /\ Accepted => SchemeAllowed /\ u_outcome.value = Strip(u_url)
    /\ Validated => u_outcome.raised \in {"", "SSRFError"}

\* a padded URL is accepted and comes back without the padding
C25_Witness ==
    /\ Accepted
    /\ u_url # Strip(u_url)
    /\ u_outcome.value = Strip(u_url)

(***************************************************************************)
(* Source fetch claims.                                                    *)
(***************************************************************************)
FetchRejected ==
    /\ sf_pc = "returned"
    /\ sf_url # <<>>
    /\ validate_url_for_scraping(sf_url, sf_dns).raised = "SSRFError"

\* C26: a fetch whose URL fails validation makes no request and returns no
\* events with status error, and every URL a fetch requests is one that the
\* guard has validated.
C26_OnlyValidatedUrlsRequested ==
    /\ FetchRejected =>
           /\ sf_requested = <<>>
           /\ sf_result.events = 0
           /\ sf_result.stats.status = "error"
    /\ \A i \in 1..Len(sf_requested) : sf_requested[i] \in sf_checked

(***************************************************************************)
(* Resilience layer and URL guard.                                         *)
(***************************************************************************)
\* C27: after the URL guard has raised an SSRF violation inside a wrapped
\* operation, the retry wrapper makes no further attempt (it neither sleeps
\* nor awaits the operation again), and the breaker's failure count and state
\* are what they were when the operation started.
C27_SsrfNotRetriedNotCounted ==
    g_violation =>
        /\ r_pc \in {"returned", "raised"}
        /\ failure_count = g_before.failure_count
        /\ state = g_before.state

(***************************************************************************)
(* HealthMonitor claims.                                                   *)
(***************************************************************************)
Tracked == DOMAIN status

\* C28: for every tracked source, consecutive_failures is the number of
\* record_failure calls since its last record_success, first sighting or
\* reset; healthy holds exactly when that number is zero; last_error is the
\* error of the last failure, and None after a success.
C28_CountersFollowHistory ==
    \A source \in Tracked :
        /\ status[source].consecutive_failures = hm_history[source].failures
        /\ status[source].healthy <=> hm_history[source].failures = 0
        /\ status[source].last_error = hm_history[source].error
        /\ hm_history[source].last = "success" =>
               status[source].last_error = NoLastError

\* two failures in a row with the second error kept, next to a source that
\* recovered
C28_Witness ==
    /\ "serpapi" \in Tracked
    /\ status["serpapi"].consecutive_failures = 2
    /\ status["serpapi"].last_error = "Timeout"
    /\ "instagram" \in Tracked
    /\ status["instagram"].healthy
    /\ status["instagram"].last_error = NoLastError

\* C29: is_healthy(source) is false exactly when the last record for the
\* source, after any reset that covered it, is a failure; a source never
\* recorded and a source that was reset are healthy.
C29_HealthyUnlessLastRecordFailed ==
    \A source \in MonitoredSources :
        /\ ~is_healthy(source) <=> hm_history[source].last = "failure"
        /\ hm_history[source].last \in {"none", "reset"} => is_healthy(source)

\* a source that was reset and one never recorded are healthy while another
\* is not
C29_Witness ==
    /\ hm_history["serpapi"].last = "reset"
    /\ is_healthy("serpapi")
    /\ hm_history["instagram"].last = "none"
    /\ is_healthy("instagram")
    /\ ~is_healthy("")

\* C30: the summary's healthy and unhealthy counts add up to its total, the
\* number of tracked sources; the healthy and the unhealthy lists are
\* disjoint, cover the tracked sources, and agree with is_healthy.
C30_SummaryAndListsConsistent ==
    /\ get_status.healthy + get_status.unhealthy = get_status.total
    /\ get_status.total = Cardinality(Tracked)
    /\ get_status.healthy = Cardinality(get_healthy_sources)
    /\ get_status.unhealthy = Cardinality(get_unhealthy_sources)
    /\ get_healthy_sources \cap get_unhealthy_sources = {}
    /\ get_healthy_sources \cup get_unhealthy_sources = Tracked
    /\ \A source \in Tracked :
           /\ source \in get_healthy_sources <=> is_healthy(source)
           /\ source \in get_unhealthy_sources <=> ~is_healthy(source)

\* two healthy sources and an unhealthy one are tracked
C30_Witness ==
    /\ get_status = Summary(2, 3)
    /\ get_unhealthy_sources = {"instagram"}

\* C31: reset given a source name removes that source's entry and leaves the
\* entry of every other source as it was, for every source name; reset with
\* no source removes every entry.
C31_ResetRemovesOnlyThatSource ==
    [][(hm_call'.method = "reset") =>
          IF hm_call'.source = AllSources
          THEN status' = <<>>
          ELSE /\ hm_call'.source \notin DOMAIN status'
               /\ \A other \in MonitoredSources \ {hm_call'.source} :
                      /\ other \in DOMAIN status' <=> other \in DOMAIN status
                      /\ other \in DOMAIN status => status'[other] = status[other]
       ]_healthVars

(***************************************************************************)
(* Circuit breaker: reset, rejection, lifecycle and invariant.             *)
(***************************************************************************)
\* C32: reset, from any state, leaves the breaker Closed with failure_count
\* 0 and no last failure time; the call made right after a reset is
\* admitted, and the breaker opens again only when the failures in a row
\* since the reset reach failure_threshold.
C32_ResetRestoresClosed ==
    /\ [](cb_event.op = "reset" =>
             /\ state = CLOSED
             /\ failure_count = 0
             /\ last_failure_time = None)
    /\ [][(cb_event.op = "reset" /\ IsCallStep) =>
             (cb_event'.op = "admitted" /\ state' = CLOSED)]_vars
    /\ [][(state = CLOSED /\ state' = OPEN) =>
             (cb_event'.op = "failure" /\ run' >= failure_threshold)]_vars

\* a reset of an open breaker with a recorded failure and a call in flight
C32_Witness ==
    /\ cb_event.op = "reset"
    /\ cb_event.from = OPEN
    /\ in_flight = 1
    /\ state = CLOSED
    /\ last_failure_time = None
    /\ now >= 1

\* C36: the state is always one of Closed, Open, HalfOpen and starts Closed;
\* with calls in flight together and completing in any order, the state
\* changes only from Closed to Open, Open to HalfOpen, HalfOpen to Open,
\* HalfOpen to Closed, or to Closed by reset; Open is left only by a call
\* admitted once recovery_timeout has elapsed, or by reset.
LifecycleSteps ==
    {<<CLOSED, OPEN>>, <<OPEN, HALF_OPEN>>, <<HALF_OPEN, OPEN>>,
     <<HALF_OPEN, CLOSED>>}

C36_Lifecycle ==
    /\ [](state \in CircuitState)
    /\ [](cb_event.op = "init" => state = CLOSED)
    /\ [][state' # state =>
             \/ <<state, state'>> \in LifecycleSteps
             \/ cb_event'.op = "reset" /\ state' = CLOSED]_vars
    /\ [][(state = OPEN /\ state' # OPEN) =>
             \/ /\ cb_event'.op = "admitted"
                /\ TimeoutElapsed
                /\ state' = HALF_OPEN
             \/ cb_event'.op = "reset"]_vars

\* of two calls in flight together, one fails and opens the breaker and the
\* other returns afterwards, while it is Open
C36_Witness ==
    /\ failure_threshold >= 1
    /\ cb_event.op = "success"
    /\ cb_event.from = OPEN
    /\ state = OPEN
    /\ in_flight = 0

\* C38: with failure_threshold >= 1, a Closed breaker has failure_count below
\* failure_threshold and an Open breaker has a last failure time.
C38_ClosedBelowThresholdOpenTimed ==
    failure_threshold >= 1 =>
        /\ state = CLOSED => failure_count < failure_threshold
        /\ state = OPEN => last_failure_time # None

\* a Closed breaker one failure short of opening
C38_Witness ==
    /\ failure_threshold >= 2
    /\ state = CLOSED
    /\ failure_count = failure_threshold - 1
    /\ cb_event.op = "failure"

(***************************************************************************)
(* Breaker and retry wrapper layered, with the clock and cancellation.     *)
(***************************************************************************)
\* C37: a call that reaches the gate while the circuit is Open and the
\* recovery timeout is pending is rejected, and the rejection leaves the
\* breaker's state, failure count, last-failure time and half-open success
\* count as they were, starts no operation, and therefore leaves the end of
\* the open period where it was, however often the retry wrapper outside
\* repeats the call.
C37_RejectionChangesNothing ==
    [][(g_pc = "gate" /\ state = OPEN /\ TimeoutPending /\ now' = now)
         => /\ cb_event'.op = "rejected"
            /\ state' = OPEN
            /\ failure_count' = failure_count
            /\ last_failure_time' = last_failure_time
            /\ success_count_in_half_open' = success_count_in_half_open
            /\ last_failure_time' + recovery_timeout'
                   = last_failure_time + recovery_timeout
            /\ invoked' = invoked
            /\ in_flight' = in_flight]_vars

\* the wrapper has retried against the open circuit after a wait and the
\* clock has moved: the second rejection
C37_Witness ==
    /\ cb_event.op = "rejected"
    /\ state = OPEN
    /\ TimeoutPending
    /\ attempt >= 1
    /\ r_sleeps >= 1
    /\ now > last_failure_time

\* C34: cancelling the task during an in-flight attempt or a backoff wait
\* ends the wrapper at once with CancelledError: the cancelling step starts
\* no operation and no wait, the breaker records neither a success nor a
\* failure for the cancelled call, and nothing runs until the wrapper is
\* called again.
C34_CancellationAborts ==
    /\ [][(g_cancel' # "none" /\ g_cancel = "none")
            => /\ r_pc' = "raised"
               /\ r_outcome'.cls = "CancelledError"
               /\ invoked' = invoked
               /\ r_sleeps' = r_sleeps
               /\ failure_count' = failure_count
               /\ state' = state
               /\ last_failure_time' = last_failure_time
               /\ success_count_in_half_open' = success_count_in_half_open
               /\ run' = run]_vars
    /\ [](g_cancel # "none" => (r_pc = "raised" /\ g_pc = "outside"))
    /\ [][(g_cancel # "none" /\ g_cancel' # "none")
            => (invoked' = invoked /\ r_sleeps' = r_sleeps)]_vars

\* a second attempt, made after a failure and a wait, is cancelled in flight
C34_Witness ==
    /\ g_cancel = "in_flight"
    /\ attempt >= 1
    /\ failure_count >= 1
    /\ r_pc = "raised"

\* a backoff wait is cancelled
C34_WitnessSleep ==
    /\ g_cancel = "sleep"
    /\ r_sleeps >= 1
    /\ r_pc = "raised"

(***************************************************************************)
(* Backoff waits.                                                          *)
(***************************************************************************)
\* min(base_delay * exponential_base^k, max_delay) over the rationals
ExactDelay(k) ==
    float_min(Float(b_base_delay.m, b_base_delay.e + b_exponential_base.e * k),
              b_max_delay)

\* every attempt made so far has failed
AllFailed == b_outcome \notin {"result", "TypeError"}

\* C33: with jitter off and max_attempts >= 1, the wrapper waits exactly
\* once after each failed attempt except the last, so that a run of
\* max_attempts failures ends after max_attempts - 1 waits; the wait after
\* failed attempt k is min(base_delay * exponential_base^k, max_delay),
\* never exceeds max_delay and never decreases from one wait to the next.
C33_BackoffWaits ==
    (b_max_attempts >= 1 /\ AllFailed) =>
        /\ b_pc = "sleeping" => Len(b_waits) = b_attempt + 1
        /\ b_pc = "awaiting" => Len(b_waits) = b_attempt
        /\ b_pc = "raised" =>
               /\ b_calls = b_max_attempts
               /\ Len(b_waits) = b_max_attempts - 1
        /\ \A i \in 1..Len(b_waits) :
               /\ float_eq(b_waits[i], ExactDelay(i - 1))
               /\ float_le(b_waits[i], b_max_delay)
        /\ \A i \in 1..(Len(b_waits) - 1) :
               float_le(b_waits[i], b_waits[i + 1])

(***************************************************************************)
(* Ingestion.                                                              *)
(***************************************************************************)
\* the adapter calls the arguments ask for, in the order the code makes them
Requested ==
    (IF "serpapi" \in sources_or_default
     THEN <<FetchName("serpapi", "")>> ELSE <<>>)
    \o (IF "instagram" \in sources_or_default /\ fe_handles # <<>>
        THEN <<FetchName("instagram", "")>> ELSE <<>>)
    \o (IF "web" \in sources_or_default
        THEN [i \in 1..Len(fe_urls) |-> FetchName("web", fe_urls[i])]
        ELSE <<>>)

RECURSIVE LoggedEvents(_)
LoggedEvents(log) ==
    IF log = <<>> THEN <<>> ELSE log[1].events \o LoggedEvents(Tail(log))

InSeq(x, seq) == \E i \in 1..Len(seq) : seq[i] = x

\* what the claim says of the fetch recorded at position k of the result
FailedFetchReported(k) ==
    fe_log[k].ended = "error" =>
        /\ fe_log[k].events = <<>>
        /\ fe_result.stats[k].status = "error"
        /\ fe_result.stats[k].count = 0
        /\ InSeq(fe_log[k].name, fe_result.failed_sources)

OthersFetched ==
    /\ [k \in 1..Len(fe_log) |-> fe_log[k].name] = Requested
    /\ fe_result.events = LoggedEvents(fe_log)
    /\ fe_result.total = Len(fe_result.events)
    /\ Len(fe_result.stats) = Len(fe_log)

\* C35: when fetch_events returns, every fetch whose requests all failed has
\* contributed no event, has a FetchStats with status "error" and count 0,
\* and is listed in failed_sources; every requested fetch has been made, the
\* events returned are those the fetches returned, and total is their number.
C35_IngestionContinues ==
    fe_pc = "returned" =>
        /\ \A k \in 1..Len(fe_log) : FailedFetchReported(k)
        /\ OthersFetched

(***************************************************************************)
(* Accounting of the input indices by deduplicate.                         *)
(***************************************************************************)
\* the emitted events that index x is the first member of, and those it was
\* merged into
EmittedAsFirst(x) ==
    {k \in 1..Len(d_result.groups) : d_result.firsts[k] = x}

MergedInto(x) ==
    {k \in 1..Len(d_result.groups) :
        x \in d_result.groups[k] /\ d_result.firsts[k] # x}

Consumed == {x \in 1..Len(d_events) : MergedInto(x) # {}}

\* C39: every input index is either the first member of exactly one emitted
\* event or merged into exactly one emitted event, never both; an index that
\* was merged starts no emitted event, is never the event whose duplicates
\* are searched, and is offered as a candidate to no event after the one it
\* was merged into.
C39_EveryIndexOnce ==
    (d_op \in {"deduplicate", "again"})
        => /\ \A x \in 1..Len(d_events) :
                 Cardinality(EmittedAsFirst(x)) + Cardinality(MergedInto(x)) = 1
           /\ \A x \in Consumed :
                 /\ \A k \in 1..Len(d_result.firsts) : d_result.firsts[k] # x
                 /\ \A pair \in d_result.compared :
                        /\ pair[1] # x
                        /\ pair[2] = x =>
                               \A k \in MergedInto(x) :
                                   pair[1] <= d_result.firsts[k]

\* the second of three listings is merged into the first, and the third,
\* which resembles only the second, is emitted on its own
C39_Witness ==
    /\ d_op = "deduplicate"
    /\ Len(d_events) = 3
    /\ d_result.groups = <<{1, 2}, {3}>>
    /\ d_result.compared = {<<1, 2>>, <<1, 3>>}

\* C40: deduplicate leaves the caller's input as it was: after the call
\* every Event of the list passed in has the field values it had before,
\* and merged data is found on the returned records only.
C40_InputUnchanged ==
    (d_op \in {"deduplicate", "again"})
        => /\ Len(d_result.events_after) = Len(d_events)
           /\ \A x \in 1..Len(d_events) : d_result.events_after[x] = d_events[x]

====
